---- MODULE Spec2Model ----
(***************************************************************************)
(* Model of the ingestion pipeline of src/src/ingestion/watcher.js: the    *)
(* chokidar 'add' handler of startWatcher, importFolder, and the helpers   *)
(* they call (shouldIgnore, parseEmail, saveAttachments).                  *)
(*                                                                         *)
(* Strings the code inspects (paths, filenames, extensions) are sequences  *)
(* of one-character strings, so that path.basename, path.extname,          *)
(* toLowerCase and the ignore regular expressions are computed as the code *)
(* computes them.                                                          *)
(***************************************************************************)
EXTENDS Integers, Sequences, FiniteSets, TLC

\* Number of 'add' events (handler runs) in one behaviour.
MaxHandlers == 2

\* JavaScript null / undefined (an absent text or name is the empty sequence).
NoVal == "null"

\* const x = v; F(x): v is computed once and F sees its value.
Let(v, F(_)) == CHOOSE y \in { F(x) : x \in { v } } : TRUE

-----------------------------------------------------------------------------
(* Strings *)

UpperChars == <<"A","B","C","D","E","F","G","H","I","J","K","L","M",
                "N","O","P","Q","R","S","T","U","V","W","X","Y","Z">>
LowerChars == <<"a","b","c","d","e","f","g","h","i","j","k","l","m",
                "n","o","p","q","r","s","t","u","v","w","x","y","z">>

\* String.prototype.toLowerCase on one character.
LowerChar(c) ==
  IF \E i \in 1..26 : UpperChars[i] = c
  THEN LowerChars[CHOOSE i \in 1..26 : UpperChars[i] = c]
  ELSE c

\* String.prototype.toLowerCase.
toLowerCase(s) == Let(s, LAMBDA t : [i \in 1..Len(t) |-> LowerChar(t[i])])

\* s ends with suffix t (a regular expression  t$ ).
EndsWith(s, t) ==
  /\ Len(s) >= Len(t)
  /\ SubSeq(s, Len(s) - Len(t) + 1, Len(s)) = t

\* s contains t as a substring.
Contains(s, t) ==
  \E i \in 1..(Len(s) - Len(t) + 1) : SubSeq(s, i, i + Len(t) - 1) = t

\* Index of the last occurrence of character c in s, 0 when there is none.
LastIndexOf(s, c) ==
  IF \E i \in 1..Len(s) : s[i] = c
  THEN CHOOSE i \in 1..Len(s) : s[i] = c /\ \A j \in (i+1)..Len(s) : s[j] # c
  ELSE 0

\* path.basename (POSIX): the part after the last separator.
basename(p) == Let(p, LAMBDA q : SubSeq(q, LastIndexOf(q, "/") + 1, Len(q)))

\* path.dirname (POSIX) of a path that has a directory part.
dirname(p) == Let(p, LAMBDA q : SubSeq(q, 1, LastIndexOf(q, "/") - 1))

\* path.join of a directory and a name.
join(dir, name) == dir \o <<"/">> \o name

\* path.extname: from the last '.' of the basename to its end; empty when
\* there is no '.' or the only '.' is the first character of the basename.
extname(p) ==
  Let(basename(p), LAMBDA b :
    Let(LastIndexOf(b, "."), LAMBDA d :
      IF d <= 1 THEN << >> ELSE SubSeq(b, d, Len(b))))

-----------------------------------------------------------------------------
(* Extension lists and ignore patterns *)

SUPPORTED_EXTENSIONS ==
  { <<".","t","x","t">>, <<".","m","d">>, <<".","j","s","o","n">>,
    <<".","s","r","t">>, <<".","p","d","f">>, <<".","d","o","c","x">>,
    <<".","e","m","l">> }

ATTACHMENT_EXTENSIONS ==
  { <<".","p","d","f">>, <<".","d","o","c","x">>, <<".","t","x","t">>,
    <<".","m","d">>, <<".","c","s","v">> }

\* /(^|[\/\\])\../ : a '.' at the start or after a separator, followed by
\* one more character.
MatchDotfile(s) ==
  \E i \in 1..(Len(s) - 1) :
    /\ s[i] = "."
    /\ (i = 1 \/ s[i-1] \in {"/", "\\"})

\* IGNORED_PATTERNS, each as the set of strings its regular expression tests
\* true on.
MatchesIgnoredPattern(s) ==
  \/ MatchDotfile(s)                                        \* dotfiles
  \/ EndsWith(s, <<".","t","m","p">>)                       \* /\.tmp$/
  \/ EndsWith(s, <<".","g","s","h","e","e","t">>)           \* /\.gsheet$/
  \/ EndsWith(s, <<".","g","d","o","c">>)                   \* /\.gdoc$/
  \/ Contains(s, <<"~","$">>)                               \* /~\$.*/
  \/ EndsWith(s, <<".","c","r","d","o","w","n","l","o","a","d">>)
  \/ EndsWith(s, <<".","p","a","r","t">>)                   \* /\.part$/

\* A mutant of shouldIgnore that tests nothing.
shouldIgnoreNever(filepath) == FALSE

\* A shouldIgnore that tests the file's own name only.
shouldIgnoreBasename(filepath) == MatchesIgnoredPattern(basename(filepath))

\* shouldIgnore: some pattern matches the basename or the whole path.
shouldIgnore(filepath) ==
  MatchesIgnoredPattern(basename(filepath)) \/ MatchesIgnoredPattern(filepath)

-----------------------------------------------------------------------------
(* Text content: a sequence of tokens; "\n", " " and "" are white space *)

WhiteTokens == {"", " ", "\n"}

\* !text || text.trim().length === 0
IsBlank(text) == \A i \in 1..Len(text) : text[i] \in WhiteTokens

\* Array.prototype.join('\n') of a sequence of lines.
RECURSIVE JoinLines(_)
JoinLines(lines) ==
  Let(lines, LAMBDA l :
    IF l = << >> THEN << >>
    ELSE IF Len(l) = 1 THEN <<l[1]>>
    ELSE <<l[1], "\n">> \o JoinLines(Tail(l)))

\* Array.prototype.filter(Boolean) on strings: drops null and ''.
RECURSIVE FilterTruthy(_)
FilterTruthy(lines) ==
  Let(lines, LAMBDA l :
    IF l = << >> THEN << >>
    ELSE IF l[1] \in {NoVal, ""} THEN FilterTruthy(Tail(l))
    ELSE <<l[1]>> \o FilterTruthy(Tail(l)))

-----------------------------------------------------------------------------
(* The files of the watched folder *)

WatchFolder == <<"w">>

\* EMAIL_FOLDER, the folder of the email watcher.
EmailFolder == <<"e">>

\* A folder the transcript watcher is switched to; it holds no file.
NewFolder == <<"v">>

F_aTxt     == <<"w","/","a",".","t","x","t">>
F_dTxt     == <<"w","/","d",".","t","x","t">>
F_upperTxt == <<"w","/","A",".","T","X","T">>
F_qPdf     == <<"w","/","q",".","p","d","f">>
F_aDocx    == <<"w","/","a",".","d","o","c","x">>
F_mEml     == <<"w","/","m",".","e","m","l">>
F_nEml     == <<"w","/","n",".","e","m","l">>
F_sub2     == <<"w","/","s","/","t","/","a",".","t","x","t">>
F_sub3     == <<"w","/","s","/","t","/","u","/","a",".","t","x","t">>
F_xCsv     == <<"w","/","x",".","c","s","v">>
F_noExt    == <<"w","/","n","o","t","e","s">>
F_DSStore  == <<"w","/",".","D","S","_","S","t","o","r","e">>
F_dotTxt   == <<"w","/",".","n",".","t","x","t">>
F_tmp      == <<"w","/","r","e","p","o","r","t",".","t","m","p">>
F_gsheet   == <<"w","/","b","u","d","g","e","t",".","g","s","h","e","e","t">>
F_gdoc     == <<"w","/","p",".","g","d","o","c">>
F_lockDocx == <<"w","/","~","$","d","r","a","f","t",".","d","o","c","x">>
F_midLock  == <<"w","/","a","~","$","b",".","t","x","t">>
F_crdl     == <<"w","/","m","o","v","i","e",".","c","r","d","o","w","n","l","o","a","d">>
F_part     == <<"w","/","f","i","l","e",".","p","a","r","t">>

\* Files whose name matches an ignore pattern.
IgnoredFiles ==
  { F_DSStore, F_dotTxt, F_tmp, F_gsheet, F_gdoc, F_lockDocx, F_midLock,
    F_crdl, F_part }

\* Files of the text family, PDF/DOCX files, email files, other files.
TextFiles  == { F_aTxt, F_dTxt, F_upperTxt }
DocFiles   == { F_qPdf, F_aDocx }
EmailFiles == { F_mEml, F_nEml }
OtherFiles == { F_xCsv, F_noExt }

Files == TextFiles \cup DocFiles \cup EmailFiles \cup OtherFiles \cup IgnoredFiles

\* The order in which fs.readdirSync lists names.
ListingOrder ==
  << F_DSStore, F_dotTxt, F_upperTxt, F_aDocx, F_aTxt, F_midLock, F_gsheet,
     F_dTxt, F_part, F_mEml, F_nEml, F_crdl, F_noExt, F_gdoc, F_qPdf, F_tmp,
     F_xCsv, F_lockDocx >>

-----------------------------------------------------------------------------
(* Collaborators whose code is outside src/: parser.js, db/queries.js *)

\* Filenames in which the filename parser recognises a date, a call type.
DatedNames == { basename(F_dTxt), basename(F_qPdf), basename(F_mEml) }
TypedNames == { basename(F_dTxt), basename(F_aDocx), basename(F_mEml) }

\* parseFilenameMetadata(filename): { date?, callType? }, a pure function of
\* the filename.
parseFilenameMetadata(filename) ==
  [ date     |-> IF filename \in DatedNames THEN "D2" ELSE NoVal,
    callType |-> IF filename \in TypedNames THEN "T2" ELSE NoVal ]

\* What a file may hold when it is read: some text, or white space only.
SomeText  == <<"Hello world">>
BlankText == <<" ", "\n">>
Contents  == { SomeText, BlankText }

\* parseTranscript(filepath) on content c: the raw content with the date and
\* context hints read from the content.
parseTranscript(filepath, c) ==
  [ filename        |-> basename(filepath),
    rawContent      |-> c,
    durationMinutes |-> NoVal,
    callDate        |-> "D1",
    context         |-> "K1" ]

\* new Date().toISOString()
Now == "now"

\* transcriptExists(filepath): a record with that filepath is in the store.
transcriptExists(store, filepath) == \E r \in store : r.filepath = filepath

\* A store whose create operation accepts a second record for a filepath.
createRejectsNever(store, filepath) == FALSE

\* createTranscript rejects (throws) on a filepath collision.
createRejects(store, filepath) == transcriptExists(store, filepath)

-----------------------------------------------------------------------------
(* emailParser.js *)

\* Attachments below this size are dropped when they are inline.
InlineSizeLimit == 10240

\* Longest sanitized attachment name.
MaxNameLen == 200

HtmlTags == { "<p>", "</p>", "<br>" }

\* White space dropped from both ends (String.prototype.trim on tokens).
RECURSIVE TrimLeft(_)
TrimLeft(text) ==
  Let(text, LAMBDA t :
    IF t # << >> /\ t[1] \in WhiteTokens THEN TrimLeft(Tail(t)) ELSE t)

RECURSIVE TrimRight(_)
TrimRight(text) ==
  Let(text, LAMBDA t :
    IF t # << >> /\ t[Len(t)] \in WhiteTokens
    THEN TrimRight(SubSeq(t, 1, Len(t) - 1)) ELSE t)

Trim(t) == TrimRight(TrimLeft(t))

\* replace(/\s+/g, ' '): every run of white space becomes one space.
RECURSIVE CollapseSpace(_)
CollapseSpace(text) ==
  Let(text, LAMBDA t :
    IF t = << >> THEN << >>
    ELSE IF t[1] \in WhiteTokens
         THEN <<" ">> \o CollapseSpace(TrimLeft(t))
         ELSE <<t[1]>> \o CollapseSpace(Tail(t)))

\* The HTML part with its tags replaced by spaces, white space collapsed,
\* trimmed.
StripHtml(html) ==
  Trim(CollapseSpace([i \in 1..Len(html) |->
                        IF html[i] \in HtmlTags THEN " " ELSE html[i]]))

\* Array.prototype.join(', ') of address strings.
RECURSIVE JoinComma(_)
JoinComma(addresses) ==
  Let(addresses, LAMBDA a :
    IF a = << >> THEN ""
    ELSE IF Len(a) = 1 THEN a[1]
    ELSE a[1] \o ", " \o JoinComma(Tail(a)))

\* A filter that also drops an inline attachment of exactly the limit.
RetainAttachmentInclusive(att) ==
  /\ ~(att.contentDisposition = "inline" /\ att.size <= InlineSizeLimit)
  /\ att.filename # << >>

\* The attachment filter of parseEmail.
RetainAttachment(att) ==
  /\ ~(att.contentDisposition = "inline" /\ att.size < InlineSizeLimit)
  /\ att.filename # << >>

RECURSIVE FilterAttachments(_)
FilterAttachments(attachments) ==
  Let(attachments, LAMBDA atts :
    IF atts = << >> THEN << >>
    ELSE IF RetainAttachment(atts[1])
         THEN << [ filename    |-> atts[1].filename,
                   contentType |-> atts[1].contentType,
                   size        |-> atts[1].size,
                   content     |-> atts[1].content ] >>
              \o FilterAttachments(Tail(atts))
         ELSE FilterAttachments(Tail(atts)))

\* parseEmail(filepath), given what simpleParser returned for the file.
parseEmail(filepath, parsed) ==
  LET body     == IF parsed.text # << >> THEN Trim(parsed.text)
                  ELSE IF parsed.html # << >>
                       THEN StripHtml(parsed.html)
                       ELSE << >>
      from     == IF parsed.from \in {NoVal, ""} THEN "Unknown Sender"
                  ELSE parsed.from
      subject  == IF parsed.subject \in {NoVal, ""} THEN "(No Subject)"
                  ELSE parsed.subject
      headerBlock ==
        JoinLines(FilterTruthy(<<
          "From: " \o from,
          "To: " \o JoinComma(parsed.to),
          IF Len(parsed.cc) > 0 THEN "CC: " \o JoinComma(parsed.cc) ELSE NoVal,
          "Subject: " \o subject,
          "Date: " \o (IF parsed.date # NoVal THEN parsed.date ELSE "Unknown"),
          "---",
          "" >>))
  IN Let(body, LAMBDA bodyText :
     Let(FilterAttachments(parsed.attachments), LAMBDA attachments :
     [ filepath       |-> filepath,
       filename       |-> basename(filepath),
       from           |-> from,
       to             |-> parsed.to,
       cc             |-> parsed.cc,
       subject        |-> subject,
       date           |-> parsed.date,
       bodyText       |-> bodyText,
       fullContent    |-> headerBlock \o bodyText,
       attachments    |-> attachments,
       hasAttachments |-> Len(attachments) > 0 ]))

\* Characters saveAttachments replaces by '_'.
UnsafeChars == { "/", "\\", ":", "*", "?", "\"", "<", ">", "|" }

\* att.filename.replace(/[/\\:*?"<>|]/g, '_').substring(0, 200)
SafeName(filename) ==
  LET r == [i \in 1..Len(filename) |->
              IF filename[i] \in UnsafeChars THEN "_" ELSE filename[i]]
  IN SubSeq(r, 1, IF Len(r) < MaxNameLen THEN Len(r) ELSE MaxNameLen)

Digits == <<"0","1","2","3","4","5","6","7","8","9">>

\* The decimal digits of a natural number.
RECURSIVE NumStr(_)
NumStr(n) ==
  IF n < 10 THEN <<Digits[n + 1]>>
  ELSE NumStr(n \div 10) \o <<Digits[(n % 10) + 1]>>

\* path.basename(name, ext)
BaseWithoutExt(name, ext) ==
  IF ext # << >> /\ EndsWith(name, ext) /\ Len(name) > Len(ext)
  THEN SubSeq(name, 1, Len(name) - Len(ext))
  ELSE name

\* A staging that writes to the sanitized name whatever the disk holds.
FreePathUnchecked(disk, outputDir, safeName, finalPath, counter) == finalPath

\* The while loop of saveAttachments: the first free path for safeName.
RECURSIVE FreePath(_, _, _, _, _)
FreePath(disk, outputDir, safeName, finalPath, counter) ==
  IF finalPath \notin DOMAIN disk THEN finalPath
  ELSE LET ext  == extname(safeName)
           base == BaseWithoutExt(basename(safeName), ext)
       IN FreePath(disk, outputDir, safeName,
                   join(outputDir, base \o <<"_">> \o NumStr(counter) \o ext),
                   counter + 1)

\* saveAttachments(attachments, outputDir) on a disk that maps each existing
\* path to its content: the saved entries and the disk afterwards.
RECURSIVE saveAttachments(_, _, _)
saveAttachments(attachments, outputDir, disk) ==
  IF attachments = << >> THEN [ saved |-> << >>, disk |-> disk ]
  ELSE LET att      == attachments[1]
           safeName == SafeName(att.filename)
       IN Let(FreePath(disk, outputDir, safeName, join(outputDir, safeName), 1),
              LAMBDA finalPath :
          Let(saveAttachments(Tail(attachments), outputDir,
                              (finalPath :> att.content) @@ disk),
              LAMBDA rest :
          [ saved |-> << [ filename    |-> basename(finalPath),
                           filepath    |-> finalPath,
                           contentType |-> att.contentType,
                           size        |-> att.size ] >> \o rest.saved,
            disk  |-> rest.disk ]))

\* What simpleParser may return for the email files of the folder.
Att_txt == [ filename |-> <<"n",".","t","x","t">>, contentType |-> "text/plain",
             size |-> 20000, contentDisposition |-> "attachment",
             content |-> SomeText ]
Att_pdf == [ filename |-> <<"c",".","p","d","f">>, contentType |-> "application/pdf",
             size |-> 20000, contentDisposition |-> "attachment",
             content |-> SomeText ]
Att_exe == [ filename |-> <<"x",".","e","x","e">>, contentType |-> "application/octet-stream",
             size |-> 20000, contentDisposition |-> "attachment",
             content |-> SomeText ]
\* An Office lock file sent along with a message.
Att_lock == [ filename |-> <<"~","$","d","r","a","f","t",".","d","o","c","x">>,
              contentType |-> "application/msword",
              size |-> 20000, contentDisposition |-> "attachment",
              content |-> SomeText ]

\* Two names that differ only in a character saveAttachments replaces,
\* with an upper-case extension.
Att_q    == [ filename |-> <<"A","?",".","T","X","T">>, contentType |-> "text/plain",
              size |-> 20000, contentDisposition |-> "attachment",
              content |-> SomeText ]
Att_star == [ filename |-> <<"A","*",".","T","X","T">>, contentType |-> "text/plain",
              size |-> 20000, contentDisposition |-> "attachment",
              content |-> SomeText ]

Mail_plain == [ text |-> <<"Hi">>, html |-> << >>, from |-> "a@x", to |-> <<"b@x">>,
                cc |-> << >>, subject |-> "Q3 Renewal", date |-> "DE",
                attachments |-> << >> ]
Mail_atts  == [ text |-> <<"Hi">>, html |-> << >>, from |-> "a@x", to |-> <<"b@x">>,
                cc |-> << >>, subject |-> "Q3 Renewal", date |-> NoVal,
                attachments |-> << Att_exe, Att_txt, Att_pdf >> ]

Mail_lock  == [ text |-> <<"Hi">>, html |-> << >>, from |-> "a@x", to |-> <<"b@x">>,
                cc |-> << >>, subject |-> "Q3 Renewal", date |-> "DE",
                attachments |-> << Att_lock >> ]

\* A message that carries the same attachment twice.
Mail_dup   == [ text |-> <<"Hi">>, html |-> << >>, from |-> "a@x", to |-> <<"b@x">>,
                cc |-> << >>, subject |-> "Q3 Renewal", date |-> "DE",
                attachments |-> << Att_q, Att_star, Att_q >> ]

ParsedMails == { Mail_plain, Mail_atts, Mail_lock }

\* A message without sender, recipients, subject, date, text or HTML part.
Mail_empty == [ text |-> << >>, html |-> << >>, from |-> NoVal, to |-> << >>,
                cc |-> << >>, subject |-> NoVal, date |-> NoVal,
                attachments |-> << >> ]

\* Attachments at the edges of the filter of parseEmail: inline just below
\* and exactly at the size limit, without a filename, small but attached.
Att_inSmall   == [ filename |-> <<"l",".","p","n","g">>, contentType |-> "image/png",
                   size |-> 10239, contentDisposition |-> "inline",
                   content |-> SomeText ]
Att_inEdge    == [ filename |-> <<"e",".","p","n","g">>, contentType |-> "image/png",
                   size |-> 10240, contentDisposition |-> "inline",
                   content |-> SomeText ]
Att_noName    == [ filename |-> << >>, contentType |-> "text/plain",
                   size |-> 20000, contentDisposition |-> "attachment",
                   content |-> SomeText ]
Att_inNoName  == [ filename |-> << >>, contentType |-> "image/gif",
                   size |-> 20000, contentDisposition |-> "inline",
                   content |-> SomeText ]
Att_tiny      == [ filename |-> <<"t",".","t","x","t">>, contentType |-> "text/plain",
                   size |-> 100, contentDisposition |-> "attachment",
                   content |-> SomeText ]

FilterAttachmentCases ==
  { Att_pdf, Att_inSmall, Att_inEdge, Att_noName, Att_inNoName, Att_tiny }

\* A message with the attachments atts.
MailWith(atts) == [ Mail_plain EXCEPT !.attachments = atts ]

-----------------------------------------------------------------------------
(* State. A context string is a sequence of its parts. *)

\* Number of watchers started between two process starts.
MaxWatchers == 2

\* Number of watchers the server starts between two process starts.
MaxServerWatchers == 3

\* Number of 'error' events one watcher emits.
MaxErrors == 1

\* depth: 2
WatchDepth == 2

\* Seconds the recording timer is followed for, and final results one
\* recognition delivers.
MaxTimer == 2
MaxWords == 2

VARIABLES
  options,         \* the options object given to startWatcher
  watchers,        \* the chokidar watchers created so far: [folder, closed, role,
                   \* reported, errors, errorCalls]
  currentWatcher,  \* module-level currentWatcher: an index of watchers, or 0
  store,           \* the transcript records of the external store
  disk,            \* attachment staging: staged path -> content
  tasks,           \* analysis tasks: record id -> "pending", "resolved", ...
  handlers,        \* the runs of the 'add' handler, one per add event
  folder,          \* the watched folder: file -> what reading it gives
  importResults,   \* what the last importFolder call returned
  server,          \* the API server: its folder settings, its email watcher
                   \* and the last response it sent
  modal            \* the CaptureModal component: its voice-memo state

vars == << options, watchers, currentWatcher, store, disk, tasks, handlers,
           folder, importResults, server, modal >>

Handlers == 1..MaxHandlers

\* What reading or decoding a file may give: an exception, or its content.
Failure     == [ ok |-> FALSE, content |-> << >> ]
Readable(c) == [ ok |-> TRUE, content |-> c ]
Outcomes    == { Failure } \cup { Readable(c) : c \in Contents }

\* What parsing an email file may give: an exception, or the parsed message.
MailFailure  == [ ok |-> FALSE, mail |-> << >> ]
MailOutcomes == { MailFailure } \cup { [ ok |-> TRUE, mail |-> <<m>> ] : m \in ParsedMails }

NoId == << 0, 0 >>

\* One observable step of a handler run, in the order the code takes them.
Ev(e, id, filepath) == [ ev |-> e, id |-> id, filepath |-> filepath ]

IdleHandler ==
  [ pc |-> "idle", file |-> << >>, existed |-> FALSE, email |-> << >>,
    saved |-> << >>, k |-> 0, n |-> 0, log |-> << >> ]

\* a || b
OrElse(a, b) == IF a # NoVal THEN a ELSE b

-----------------------------------------------------------------------------
(* The code between two awaits, as a function of the state it runs on:       *)
(* st = [store, disk, tasks, log, n, thrown], n the number of records the    *)
(* run has created, thrown whether an exception is propagating.             *)

Emit(st, e) == [ st EXCEPT !.log = Append(@, e) ]

\* A dispatch that awaits nothing but hands the record over twice.
dispatchTwice(st, id) ==
  IF options.processImmediately
  THEN Emit(Emit([ st EXCEPT !.tasks = (id :> "pending") @@ @ ],
                 Ev("processTranscript", id, << >>)),
            Ev("processTranscript", id, << >>))
  ELSE st

\* if (processImmediately) processTranscript(id).catch(log): a detached task.
dispatch(st, id) ==
  IF options.processImmediately
  THEN Emit([ st EXCEPT !.tasks = (id :> "pending") @@ @ ],
            Ev("processTranscript", id, << >>))
  ELSE st

\* A notification that is never sent.
notifyNever(st, id, filepath) == st

\* if (onNewFile) onNewFile({ transcriptId, filepath })
\* The onNewFile passed in the options throws when it is called for
\* filepath.
onNewFileThrows(filepath) ==
  "onNewFileThrows" \in DOMAIN options /\ filepath \in options.onNewFileThrows

notify(st, id, filepath) ==
  IF options.onNewFile
  THEN Let(Emit(st, Ev("onNewFile", id, filepath)), LAMBDA s :
         IF onNewFileThrows(filepath) THEN [ s EXCEPT !.thrown = TRUE ] ELSE s)
  ELSE st

\* if (onError) onError(err, filepath), in a catch block.
catchError(st, filepath) ==
  LET s == [ st EXCEPT !.thrown = FALSE ]
  IN IF options.onError THEN Emit(s, Ev("onError", NoId, filepath)) ELSE s

\* createTranscript(fields) called by run h (0 for importFolder): throws on
\* a filepath collision, else stores the record under a fresh id.
createTranscript(st, h, fields) ==
  Let(Emit(st, Ev("createTranscript", NoId, fields.filepath)), LAMBDA called :
    IF createRejects(called.store, fields.filepath)
    THEN [ called EXCEPT !.thrown = TRUE ]
    ELSE LET id == << h, called.n + 1 >>
             rec == [ id              |-> id,
                      filename        |-> fields.filename,
                      filepath        |-> fields.filepath,
                      rawContent      |-> fields.rawContent,
                      durationMinutes |-> fields.durationMinutes,
                      callDate        |-> fields.callDate,
                      context         |-> fields.context ]
         IN Emit([ called EXCEPT !.store = @ \cup {rec}, !.n = @ + 1 ],
                 Ev("created", id, fields.filepath)))

\* The statements every branch of the handler runs to create a record:
\* createTranscript, the detached processTranscript, onNewFile.
ingest(st, h, fields) ==
  Let(createTranscript(st, h, fields), LAMBDA s :
    IF s.thrown THEN s
    ELSE notify(dispatch(s, << h, s.n >>), << h, s.n >>, fields.filepath))

\* A text branch in which the content-derived values win.
textBranchContentFirst(st, h, filepath, o) ==
  IF ~o.ok THEN catchError(st, filepath)
  ELSE LET parsed == parseTranscript(filepath, o.content)
           filenameMeta == parseFilenameMetadata(parsed.filename)
           s == ingest(st, h,
                  [ filename        |-> parsed.filename,
                    filepath        |-> filepath,
                    rawContent      |-> parsed.rawContent,
                    durationMinutes |-> parsed.durationMinutes,
                    callDate        |-> OrElse(parsed.callDate, filenameMeta.date),
                    context         |-> << OrElse(parsed.context, filenameMeta.callType) >> ])
       IN IF s.thrown THEN catchError(s, filepath) ELSE s

\* The parseTranscript path for txt/md/json/srt, o what reading gives.
textBranch(st, h, filepath, o) ==
  IF ~o.ok THEN catchError(st, filepath)
  ELSE LET parsed == parseTranscript(filepath, o.content)
           filenameMeta == parseFilenameMetadata(parsed.filename)
           s == ingest(st, h,
                  [ filename        |-> parsed.filename,
                    filepath        |-> filepath,
                    rawContent      |-> parsed.rawContent,
                    durationMinutes |-> parsed.durationMinutes,
                    callDate        |-> OrElse(filenameMeta.date, parsed.callDate),
                    context         |-> << OrElse(filenameMeta.callType, parsed.context) >> ])
       IN IF s.thrown THEN catchError(s, filepath) ELSE s

\* "Watched file: <filename>"
WatchedFileContext(filename) == << "Watched file: " >> \o filename

\* The PDF/DOCX branch after its await, o what the extractor gives.
docBranch(st, h, filepath, o) ==
  IF ~o.ok THEN catchError(st, filepath)
  ELSE IF IsBlank(o.content) THEN st
  ELSE Let(basename(filepath), LAMBDA filename :
       Let(parseFilenameMetadata(filename), LAMBDA filenameMeta :
       Let(ingest(st, h,
                  [ filename        |-> filename,
                    filepath        |-> filepath,
                    rawContent      |-> o.content,
                    durationMinutes |-> NoVal,
                    callDate        |-> OrElse(filenameMeta.date, Now),
                    context         |-> IF filenameMeta.callType # NoVal
                                        THEN << filenameMeta.callType >>
                                        ELSE WatchedFileContext(filename) ]),
           LAMBDA s :
       IF s.thrown THEN catchError(s, filepath) ELSE s)))

\* `Email: ${email.subject}`
EmailContext(email) == << "Email: ", email.subject >>

\* An attachment context that leaves the email out.
AttachmentContextBare(att, email) == << "Attachment: " >> \o att.filename

\* `Attachment: ${att.filename} (from "${email.subject}")`
AttachmentContext(att, email) ==
  << "Attachment: " >> \o att.filename \o << " (from \"", email.subject, "\")" >>

\* email.date ? email.date.toISOString() : <other>
EmailDateOr(email, other) == IF email.date # NoVal THEN email.date ELSE other

\* The provenance header put before an attachment's text.
attachmentHeader(att, email) ==
  JoinLines(<< "[Attachment from email]",
               "Email Subject: " \o email.subject,
               "Email From: " \o email.from,
               "Email Date: " \o EmailDateOr(email, "Unknown") >>)
  \o << "\n", "Attachment: " >> \o att.filename
  \o << " (" \o att.contentType \o ")", "\n", "---", "\n", "" >>

\* The body of the attachment loop from the empty-content check on, for
\* attachment att with extracted text o; its own try/catch only logs.
attachmentBody(st, h, email, att, o) ==
  IF ~o.ok THEN Emit(st, Ev("attachmentFailed", NoId, att.filepath))
  ELSE IF IsBlank(o.content) THEN Emit(st, Ev("attachmentEmpty", NoId, att.filepath))
  ELSE LET s == ingest(st, h,
                  [ filename        |-> att.filename,
                    filepath        |-> att.filepath,
                    rawContent      |-> attachmentHeader(att, email) \o o.content,
                    durationMinutes |-> NoVal,
                    callDate        |-> EmailDateOr(email, Now),
                    context         |-> AttachmentContext(att, email) ])
       IN [ s EXCEPT !.thrown = FALSE ]

\* An attachment filter that lets every staged file through.
attachmentSupportedAlways(attExt) == TRUE

\* ATTACHMENT_EXTENSIONS.includes(attExt)
attachmentSupported(attExt) == attExt \in ATTACHMENT_EXTENSIONS

AwaitedExtensions == { <<".","p","d","f">>, <<".","d","o","c","x">> }

\* for (const att of savedFiles), from attachment k on, up to the next await
\* (extractPdfText, extractDocxText) or the end of the list: the state, the
\* index reached and where the run stands.
RECURSIVE attachmentLoop(_, _, _, _, _)
attachmentLoop(st, h, email, saved, k) ==
  IF k > Len(saved) THEN [ st |-> st, k |-> k, pc |-> "done" ]
  ELSE LET att == saved[k]
       IN Let(toLowerCase(extname(att.filename)), LAMBDA attExt :
          IF ~attachmentSupported(attExt)
          THEN attachmentLoop(st, h, email, saved, k + 1)
          ELSE IF transcriptExists(st.store, att.filepath)
          THEN attachmentLoop(st, h, email, saved, k + 1)
          ELSE IF attExt \in AwaitedExtensions
          THEN [ st |-> st, k |-> k, pc |-> "attExtract" ]
          ELSE Let(attachmentBody(st, h, email, att,
                                  [ ok |-> TRUE, content |-> st.disk[att.filepath] ]),
                   LAMBDA s : attachmentLoop(s, h, email, saved, k + 1)))

\* '.prism-attachments'
\* A staging directory whose name does not begin with a dot.
AttachDirNameVisible == <<"p","r","i","s","m","-","a","t","t","a","c","h","m","e","n","t","s">>

AttachDirName == <<".","p","r","i","s","m","-","a","t","t","a","c","h","m","e","n","t","s">>

\* A branch that goes on to the attachments whatever became of the body.
bodyFailedIgnored(s) == FALSE

\* createTranscript for the body threw: the catch of the .eml branch takes
\* over and the attachment code is not reached.
bodyFailed(s) == s.thrown

\* An empty-content check that looks at the body text alone.
emptyEmailBody(email) == IsBlank(email.bodyText)

\* !email.fullContent || email.fullContent.trim().length === 0
emptyEmail(email) == IsBlank(email.fullContent)

\* The .eml branch after its await, o what parseEmail's parser gives.
emailBranch(st, h, filepath, o) ==
  IF ~o.ok THEN [ st |-> catchError(st, filepath), k |-> 0, pc |-> "done",
                  email |-> << >>, saved |-> << >> ]
  ELSE
    LET stop(s) == [ st |-> s, k |-> 0, pc |-> "done", email |-> << >>,
                     saved |-> << >> ]
    IN Let(parseEmail(filepath, o.mail[1]), LAMBDA email :
       IF emptyEmail(email) THEN stop(st)
       ELSE
         Let(ingest(st, h,
                    [ filename        |-> email.filename,
                      filepath        |-> filepath,
                      rawContent      |-> email.fullContent,
                      durationMinutes |-> NoVal,
                      callDate        |-> EmailDateOr(email, Now),
                      context         |-> EmailContext(email) ]), LAMBDA s :
         IF bodyFailed(s) THEN stop(catchError(s, filepath))
         ELSE IF ~email.hasAttachments THEN stop(s)
         ELSE
           Let(saveAttachments(email.attachments,
                               join(dirname(filepath), AttachDirName), s.disk),
               LAMBDA sv :
           Let(attachmentLoop(
                 [ s EXCEPT !.disk = sv.disk,
                            !.log = @ \o [ i \in 1..Len(sv.saved) |->
                                      Ev("stage", NoId, sv.saved[i].filepath) ] ],
                 h, email, sv.saved, 1),
               LAMBDA r :
           [ st |-> r.st, k |-> r.k, pc |-> r.pc,
             email |-> << email >>, saved |-> sv.saved ]))))

-----------------------------------------------------------------------------
(* Actions *)

\* The folder contents the model is run on: each file with what reading,
\* decoding or parsing it gives.
Scenarios ==
  { (F_aTxt :> o) : o \in Outcomes }
  \cup { (F_qPdf :> o) : o \in Outcomes }
  \cup { (F_mEml :> m) : m \in MailOutcomes }
  \cup { (F_dTxt :> Readable(SomeText)) @@ (F_aDocx :> Readable(SomeText)),
          (F_dTxt :> Readable(BlankText)) @@ (F_aDocx :> Failure),
          [ f \in { F_upperTxt, F_xCsv, F_noExt } |-> Readable(SomeText) ],
          [ f \in { F_DSStore, F_dotTxt, F_tmp } |-> Readable(SomeText) ],
          [ f \in { F_gsheet, F_gdoc, F_lockDocx } |-> Readable(SomeText) ],
          [ f \in { F_midLock, F_crdl, F_part } |-> Readable(SomeText) ] }

\* The options startWatcher is called with: its defaults with both callbacks,
\* the server's call, and a call without callbacks.
OptionSets ==
  { [ processImmediately |-> TRUE,  onNewFile |-> TRUE,  onError |-> TRUE ],
    [ processImmediately |-> FALSE, onNewFile |-> TRUE,  onError |-> FALSE ],
    [ processImmediately |-> FALSE, onNewFile |-> FALSE, onError |-> FALSE ] }

\* The options of the server's startWatcher and restartWatcher calls.
ServerOptions ==
  [ processImmediately |-> FALSE, onNewFile |-> TRUE, onError |-> FALSE ]

\* The folder contents the server is run on.
ServerScenarios ==
  { (F_qPdf :> Readable(SomeText)),
    (F_mEml :> [ ok |-> TRUE, mail |-> <<Mail_atts>> ]),
    (F_mEml :> [ ok |-> TRUE, mail |-> <<Mail_dup>> ]),
    (F_mEml :> [ ok |-> TRUE, mail |-> <<Mail_empty>> ]),
    (F_mEml :> [ ok |-> TRUE, mail |-> <<Mail_dup>> ])
      @@ (F_nEml :> [ ok |-> TRUE, mail |-> <<Mail_dup>> ]) }

\* No request has been answered yet. A response: its number modulo 2, the
\* request it answers (method, path, the field of the body or query the
\* handler reads), the handler that answered, the status and the body.
NoResponse ==
  [ seq |-> 0, method |-> "", path |-> << >>, req |-> << >>, handler |-> "",
    status |-> 0, body |-> [ none |-> TRUE ] ]

\* The server's settings when neither folder is set in the environment.
ServerUnset ==
  [ WATCH_FOLDER |-> << >>, EMAIL_FOLDER |-> << >>, envEmailFolder |-> << >>,
    emailWatcher |-> 0, response |-> NoResponse ]

\* CaptureModal as it is mounted: closed, every useState at its initial
\* value, no recognition, no timer.
ModalMounted ==
  [ isOpen |-> FALSE, isRecording |-> FALSE, voiceTranscript |-> << >>,
    voiceTimer |-> 0, voiceError |-> FALSE, recognition |-> "none",
    fullTranscript |-> << >>,
    timerOn |-> FALSE, resetPending |-> FALSE ]

\* Nothing is running, stored or staged.
Fresh ==
  /\ server = ServerUnset
  /\ modal = ModalMounted
  /\ watchers = << >>
  /\ currentWatcher = 0
  /\ store = {}
  /\ disk = << >>
  /\ tasks = << >>
  /\ handlers = [ h \in Handlers |-> IdleHandler ]
  /\ importResults = << >>

InitServer ==
  /\ options = ServerOptions
  /\ folder \in ServerScenarios
  /\ Fresh

Init ==
  /\ options \in OptionSets
  /\ folder \in Scenarios
  /\ server = ServerUnset
  /\ modal = ModalMounted
  /\ watchers = << >>
  /\ currentWatcher = 0
  /\ store = {}
  /\ disk = << >>
  /\ tasks = << >>
  /\ handlers = [ h \in Handlers |-> IdleHandler ]
  /\ importResults = << >>

\* The state a handler run works on, and the state it leaves.
Running(h) ==
  [ store |-> store, disk |-> disk, tasks |-> tasks, log |-> handlers[h].log,
    n |-> handlers[h].n, thrown |-> FALSE ]

Commit(h, st, pc, email, saved, k) ==
  /\ store' = st.store
  /\ disk' = st.disk
  /\ tasks' = st.tasks
  /\ handlers' = [ handlers EXCEPT ![h].pc = pc, ![h].log = st.log,
                                   ![h].n = st.n, ![h].email = email,
                                   ![h].saved = saved, ![h].k = k ]

\* startWatcher(watchFolder, options) on the watchers ws: a new watcher,
\* which the caller keeps as the transcript or as the email watcher; it is
\* the last of the list and becomes currentWatcher.
startWatcher(ws, watchFolder, role) ==
  Append(ws, [ folder |-> watchFolder, closed |-> FALSE, role |-> role,
               reported |-> { }, errors |-> 0, errorCalls |-> 0 ])

\* watcher.close() on watcher w of ws (0: there is none).
close(ws, w) == IF w = 0 THEN ws ELSE [ ws EXCEPT ![w].closed = TRUE ]

\* startWatcher(watchFolder, options): a new watcher, made the current one.
StartWatcher ==
  /\ Len(watchers) < MaxWatchers
  /\ watchers' = startWatcher(watchers, WatchFolder, "transcript")
  /\ currentWatcher' = Len(watchers')
  /\ UNCHANGED << options, server, modal, store, disk, tasks, handlers, folder, importResults >>

\* restartWatcher(newFolder, options): close the current watcher, start one.
RestartWatcher ==
  /\ Len(watchers) < MaxWatchers
  /\ currentWatcher # 0
  /\ watchers' = startWatcher(close(watchers, currentWatcher), WatchFolder,
                              "transcript")
  /\ currentWatcher' = Len(watchers')
  /\ UNCHANGED << options, server, modal, store, disk, tasks, handlers, folder, importResults >>

\* The server starts: startWatcher(WATCH_FOLDER, ...) and, when an email
\* folder is configured, startWatcher(EMAIL_FOLDER, ...) right after it.
ServerStart ==
  /\ watchers = << >>
  /\ \E withEmail \in BOOLEAN :
       watchers' = IF withEmail
                   THEN startWatcher(startWatcher(watchers, WatchFolder, "transcript"),
                                     EmailFolder, "email")
                   ELSE startWatcher(watchers, WatchFolder, "transcript")
  /\ currentWatcher' = Len(watchers')
  /\ UNCHANGED << options, server, modal, store, disk, tasks, handlers, folder, importResults >>

\* A reconfiguration that gives up the handler runs still waiting.
PutWatchFolderCancelling ==
  /\ Len(watchers) < MaxServerWatchers
  /\ watchers # << >>
  /\ \E newFolder \in { WatchFolder, NewFolder } :
       watchers' = startWatcher(close(watchers, currentWatcher), newFolder,
                                "transcript")
  /\ currentWatcher' = Len(watchers')
  /\ handlers' = [ h \in Handlers |->
                     IF handlers[h].pc \in {"idle", "done", "rejected", "killed"}
                     THEN handlers[h]
                     ELSE [ handlers[h] EXCEPT !.pc = "killed" ] ]
  /\ UNCHANGED << options, server, modal, store, disk, tasks, folder, importResults >>

\* PUT /api/config/watch-folder: restartWatcher(newFolder, options) closes
\* currentWatcher and starts a watcher of the transcript folder, the same
\* folder as before or another one.
PutWatchFolder ==
  /\ Len(watchers) < MaxServerWatchers
  /\ watchers # << >>
  /\ \E newFolder \in { WatchFolder, NewFolder } :
       watchers' = startWatcher(close(watchers, currentWatcher), newFolder,
                                "transcript")
  /\ currentWatcher' = Len(watchers')
  /\ UNCHANGED << options, server, modal, store, disk, tasks, handlers, folder, importResults >>

\* The number of directories between dir and the file f below it.
Levels(dir, f) ==
  Cardinality({ i \in (Len(dir) + 2)..Len(f) : f[i] = "/" })

\* f lies in dir or in a directory below it.
Below(dir, f) ==
  /\ Len(f) > Len(dir) + 1
  /\ SubSeq(f, 1, Len(dir)) = dir
  /\ f[Len(dir) + 1] = "/"

\* An initial scan that does not descend into subdirectories.
ObservedTopLevel(dir) ==
  { f \in DOMAIN folder : dirname(f) = dir /\ ~shouldIgnore(f) }

\* The files the initial scan of a watcher of `dir` reports: ignoreInitial
\* is false, ignored is shouldIgnore, depth is 2.
Observed(dir) ==
  { f \in DOMAIN folder :
      Below(dir, f) /\ Levels(dir, f) <= WatchDepth /\ ~shouldIgnore(f) }

\* Files a watcher of `dir` reports.
FilesUnder(dir) == { f \in DOMAIN folder : dirname(f) = dir }

\* The handler run that the next add event starts.
NextHandler(h) ==
  /\ handlers[h].pc = "idle"
  /\ \A g \in Handlers : g < h => handlers[g].pc # "idle"

\* An extension test that compares without lower-casing.
extensionOfExact(filepath) == extname(filepath)

\* path.extname(filepath).toLowerCase()
extensionOf(filepath) == toLowerCase(extname(filepath))

\* An extension filter that lets every file through.
supportedAlways(ext) == TRUE

\* SUPPORTED_EXTENSIONS.includes(ext)
supported(ext) == ext \in SUPPORTED_EXTENSIONS

\* An existence check that never finds a record.
alreadyProcessedNever(records, filepath) == FALSE

\* if (transcriptExists(filepath)) return / continue
alreadyProcessed(records, filepath) == transcriptExists(records, filepath)

\* watcher.on('add', async (filepath) => ...) up to its first await;
\* storeFails: the store throws when asked whether the path exists. The
\* checks are outside every try block, so the async handler then ends with
\* a rejected promise nobody handles.
addHandler(h, filepath, storeFails) ==
  LET ext == extensionOf(filepath)
      began == [ handlers EXCEPT ![h].file = filepath,
                                 ![h].existed = transcriptExists(store, filepath) ]
      skip == /\ handlers' = [ began EXCEPT ![h].pc = "done" ]
              /\ UNCHANGED << store, disk, tasks >>
      reject == /\ handlers' = [ handlers EXCEPT ![h].file = filepath,
                                                  ![h].pc = "rejected" ]
                /\ UNCHANGED << store, disk, tasks >>
      wait(pc) == /\ handlers' = [ began EXCEPT ![h].pc = pc ]
                  /\ UNCHANGED << store, disk, tasks >>
  IN IF ~supported(ext) THEN skip
     ELSE IF shouldIgnore(filepath) THEN skip
     ELSE IF storeFails THEN reject
     ELSE IF alreadyProcessed(store, filepath) THEN skip
     ELSE IF ext = <<".","e","m","l">> THEN wait("parseEmail")
     ELSE IF ext \in AwaitedExtensions THEN wait("extract")
     ELSE LET st == textBranch(Running(h), h, filepath, folder[filepath])
          IN /\ store' = st.store
             /\ disk' = st.disk
             /\ tasks' = st.tasks
             /\ handlers' = [ began EXCEPT ![h].pc = "done", ![h].log = st.log,
                                           ![h].n = st.n ]

\* An active watcher emits 'add' for a file of its folder.
Add(h, storeFails) ==
  /\ NextHandler(h)
  /\ \E w \in 1..Len(watchers), f \in DOMAIN folder :
       /\ ~watchers[w].closed
       /\ f \in FilesUnder(watchers[w].folder)
       /\ addHandler(h, f, storeFails)
  /\ UNCHANGED << options, server, modal, watchers, currentWatcher, folder, importResults >>

\* An add event while the store answers.
AddEvent(h) == Add(h, FALSE)

\* An add event while the store does not answer.
AddEventStoreDown(h) == Add(h, TRUE)

\* The initial scan of an active watcher emits 'add' for a file it has not
\* reported yet.
ScanEvent(h) ==
  /\ NextHandler(h)
  /\ \E w \in 1..Len(watchers) :
       /\ ~watchers[w].closed
       /\ \E f \in Observed(watchers[w].folder) \ watchers[w].reported :
            /\ addHandler(h, f, FALSE)
            /\ watchers' = [ watchers EXCEPT ![w].reported = @ \cup { f } ]
  /\ UNCHANGED << options, server, modal, currentWatcher, folder, importResults >>

\* An 'error' handler that closes the watcher and tells nobody.
onWatcherErrorFatal(ws, w) ==
  [ ws EXCEPT ![w].errors = @ + 1, ![w].closed = TRUE ]

\* watcher.on('error', ...): log, and onError(error) if there is one.
onWatcherError(ws, w) ==
  [ ws EXCEPT ![w].errors = @ + 1,
              ![w].errorCalls = IF options.onError THEN @ + 1 ELSE @ ]

\* An active watcher emits 'error'.
WatcherError(w) ==
  /\ w \in 1..Len(watchers)
  /\ ~watchers[w].closed
  /\ watchers[w].errors < MaxErrors
  /\ watchers' = onWatcherError(watchers, w)
  /\ UNCHANGED << options, server, modal, currentWatcher, store, disk, tasks, handlers, folder,
                  importResults >>

\* POST /api/data/reset with the confirmation token: the store is emptied.
ResetData ==
  /\ store' = { }
  /\ UNCHANGED << options, server, modal, watchers, currentWatcher, disk, tasks, handlers,
                  folder, importResults >>

\* A run that awaits the analysis of every record it dispatched.
awaitedAnalysesPending(h) ==
  { id \in DOMAIN tasks : id[1] = h /\ tasks[id] = "pending" }

\* The analysis tasks run h has to see settled before it goes on: none,
\* processTranscript(id).catch(...) is called without await.
awaitedAnalyses(h) == { }

\* extractPdfText / extractDocxText settles: the PDF/DOCX branch resumes.
ResumeExtract(h) ==
  /\ handlers[h].pc = "extract"
  /\ awaitedAnalyses(h) = { }
  /\ \E st \in { docBranch(Running(h), h, handlers[h].file,
                             folder[handlers[h].file]) } :
       Commit(h, st, "done", << >>, << >>, 0)
  /\ UNCHANGED << options, server, modal, watchers, currentWatcher, folder, importResults >>

\* parseEmail settles: the .eml branch resumes, up to its next await.
ResumeParseEmail(h) ==
  /\ handlers[h].pc = "parseEmail"
  /\ awaitedAnalyses(h) = { }
  /\ \E r \in { emailBranch(Running(h), h, handlers[h].file,
                              folder[handlers[h].file]) } :
       Commit(h, r.st, r.pc, r.email, r.saved, r.k)
  /\ UNCHANGED << options, server, modal, watchers, currentWatcher, folder, importResults >>

\* The extractor of attachment k settles: the loop resumes.
ResumeAttExtract(h) ==
  /\ handlers[h].pc = "attExtract"
  /\ awaitedAnalyses(h) = { }
  /\ \E o \in Outcomes :
       LET hd == handlers[h]
           email == hd.email[1]
       IN \E r \in { attachmentLoop(
                       attachmentBody(Running(h), h, email, hd.saved[hd.k], o),
                       h, email, hd.saved, hd.k + 1) } :
            Commit(h, r.st, r.pc, IF r.pc = "done" THEN << >> ELSE hd.email,
                   IF r.pc = "done" THEN << >> ELSE hd.saved, r.k)
  /\ UNCHANGED << options, server, modal, watchers, currentWatcher, folder, importResults >>

\* A rejected analysis that takes the record back out of the store and is
\* reported as an ingestion error.
AnalysisRejectRollback(id) ==
  /\ id \in DOMAIN tasks
  /\ tasks[id] = "pending"
  /\ tasks' = [ tasks EXCEPT ![id] = "rejected" ]
  /\ store' = { r \in store : r.id # id }
  /\ UNCHANGED << options, server, modal, watchers, currentWatcher, disk, handlers, folder,
                  importResults >>

\* The promise of processTranscript(id) rejects: .catch logs the error.
AnalysisReject(id) ==
  /\ id \in DOMAIN tasks
  /\ tasks[id] = "pending"
  /\ tasks' = [ tasks EXCEPT ![id] = "rejected" ]
  /\ UNCHANGED << options, server, modal, watchers, currentWatcher, store, disk, handlers,
                  folder, importResults >>

\* The promise of processTranscript(id) resolves.
AnalysisResolve(id) ==
  /\ id \in DOMAIN tasks
  /\ tasks[id] = "pending"
  /\ tasks' = [ tasks EXCEPT ![id] = "resolved" ]
  /\ UNCHANGED << options, server, modal, watchers, currentWatcher, store, disk, handlers,
                  folder, importResults >>

\* fs.readdirSync(folderPath): the names of the folder, in listing order.
Listing == SelectSeq(ListingOrder, LAMBDA f : f \in DOMAIN folder)

\* What reading a file as text gives (an email file: its source text).
RawText(o) == IF "content" \in DOMAIN o THEN o.content ELSE SomeText

\* A catch block that reports the file as imported.
failureEntryAsSuccess(filepath, error) ==
  [ filepath |-> filepath, success |-> TRUE, transcriptId |-> NoId ]

\* The entry the catch block of importFolder pushes; error is the message of
\* what was thrown, named here by the call that threw.
failureEntry(filepath, error) ==
  [ filepath |-> filepath, success |-> FALSE, transcriptId |-> NoId,
    error |-> error ]

\* The loop of importFolder(folderPath) over the listed names `files`; o
\* gives, for each file, what reading it gives.
RECURSIVE importLoop(_, _, _, _, _)
importLoop(folderPath, st, results, files, o) ==
  IF files = << >> THEN [ st |-> st, results |-> results ]
  ELSE
    LET file     == files[1]
        filepath == join(folderPath, file)
        ext      == toLowerCase(extname(file))
        rest     == Tail(files)
    IN IF ~supported(ext) THEN importLoop(folderPath, st, results, rest, o)
       ELSE IF shouldIgnore(filepath) THEN importLoop(folderPath, st, results, rest, o)
       ELSE IF alreadyProcessed(st.store, filepath)
            THEN importLoop(folderPath, st, results, rest, o)
       ELSE IF ~o[filepath].ok
            THEN importLoop(folderPath, st,
                   Append(results, failureEntry(filepath, "parseTranscript")),
                   rest, o)
       ELSE
         LET parsed == parseTranscript(filepath, RawText(o[filepath]))
             filenameMeta == parseFilenameMetadata(parsed.filename)
             s == createTranscript(st, 0,
                    [ filename        |-> parsed.filename,
                      filepath        |-> filepath,
                      rawContent      |-> parsed.rawContent,
                      durationMinutes |-> parsed.durationMinutes,
                      callDate        |-> OrElse(filenameMeta.date, parsed.callDate),
                      context         |-> << OrElse(filenameMeta.callType,
                                                    parsed.context) >> ])
         IN IF s.thrown
            THEN importLoop(folderPath, [ s EXCEPT !.thrown = FALSE ],
                   Append(results, failureEntry(filepath, "createTranscript")),
                   rest, o)
            ELSE importLoop(folderPath, s,
                   Append(results, [ filepath |-> filepath, success |-> TRUE,
                                     transcriptId |-> << 0, s.n >> ]),
                   rest, o)

\* What importFolder(WatchFolder) does and returns in the current state.
ImportRun ==
  LET st == [ store |-> store, disk |-> disk, tasks |-> tasks,
              log |-> << >>, thrown |-> FALSE,
              n |-> Cardinality({ r \in store : r.id[1] = 0 }) ]
  IN importLoop(WatchFolder, st, << >>, [ i \in 1..Len(Listing) |->
                                           basename(Listing[i]) ], folder)

\* importFolder(folderPath): it awaits nothing, so it runs in one step.
ImportFolder ==
  /\ LET r == ImportRun
     IN /\ store' = r.st.store
        /\ disk' = r.st.disk
        /\ tasks' = r.st.tasks
        /\ importResults' = r.results
  /\ UNCHANGED << options, server, modal, watchers, currentWatcher, handlers, folder >>

\* The process ends and starts again: the store and the disk stay, every
\* watcher, running handler and pending analysis is gone.
ProcessRestart ==
  /\ watchers # << >>
  /\ watchers' = << >>
  /\ currentWatcher' = 0
  /\ handlers' = [ h \in Handlers |->
                     IF handlers[h].pc \in {"idle", "done", "rejected", "killed"}
                     THEN handlers[h]
                     ELSE [ handlers[h] EXCEPT !.pc = "killed",
                                               !.email = << >>,
                                               !.saved = << >>, !.k = 0 ] ]
  /\ tasks' = [ id \in DOMAIN tasks |->
                  IF tasks[id] = "pending" THEN "lost" ELSE tasks[id] ]
  /\ importResults' = << >>
  /\ UNCHANGED << options, server, modal, store, disk, folder >>

Next ==
  \/ StartWatcher
  \/ RestartWatcher
  \/ \E h \in Handlers : AddEvent(h)
  \/ \E h \in Handlers : ResumeExtract(h)
  \/ \E h \in Handlers : ResumeParseEmail(h)
  \/ \E h \in Handlers : ResumeAttExtract(h)
  \/ \E id \in DOMAIN tasks : AnalysisReject(id)
  \/ \E id \in DOMAIN tasks : AnalysisResolve(id)
  \/ ImportFolder
  \/ ProcessRestart

Spec == Init /\ [][Next]_vars

\* The watcher as the server runs it: its options, its two watchers and
\* its reconfiguration route, on folders with emails, with a store that may
\* be down.
NextServer ==
  \/ ServerStart
  \/ PutWatchFolder
  \/ \E h \in Handlers : AddEvent(h)
  \/ \E h \in Handlers : AddEventStoreDown(h)
  \/ \E h \in Handlers : ResumeExtract(h)
  \/ \E h \in Handlers : ResumeParseEmail(h)
  \/ \E h \in Handlers : ResumeAttExtract(h)
  \/ ProcessRestart

ServerSpec == InitServer /\ [][NextServer]_vars

\* The folder contents the watched folder is switched on.
SwitchScenarios ==
  { (F_qPdf :> Readable(SomeText)),
    (F_mEml :> [ ok |-> TRUE, mail |-> <<Mail_atts>> ]) }

InitSwitch ==
  /\ options = ServerOptions
  /\ folder \in SwitchScenarios
  /\ Fresh

\* The server with extractors and an email parser that finish.
FairServerSpec ==
  /\ InitSwitch
  /\ [][NextServer]_vars
  /\ \A h \in Handlers : WF_vars(ResumeExtract(h))
  /\ \A h \in Handlers : WF_vars(ResumeParseEmail(h))
  /\ \A h \in Handlers : WF_vars(ResumeAttExtract(h))

\* The folder contents the initial scan is run on.
ScanScenarios ==
  { (F_aTxt :> Readable(SomeText)) @@ (F_qPdf :> o) : o \in Outcomes }
  \cup { (F_mEml :> [ ok |-> TRUE, mail |-> <<Mail_atts>> ]),
          (F_sub2 :> Readable(SomeText)) @@ (F_sub3 :> Readable(SomeText)),
          (F_dotTxt :> Readable(SomeText)) @@ (F_xCsv :> Readable(SomeText)) }

InitScan ==
  /\ options \in { o \in OptionSets : o.onNewFile }
  /\ folder \in ScanScenarios
  /\ Fresh

\* The server's watchers from their start on: each reports the files it
\* finds, once; importFolder may run, a watcher may emit 'error'.
NextScan ==
  \/ ServerStart
  \/ \E h \in Handlers : ScanEvent(h)
  \/ \E h \in Handlers : ResumeExtract(h)
  \/ \E h \in Handlers : ResumeParseEmail(h)
  \/ \E h \in Handlers : ResumeAttExtract(h)
  \/ \E w \in 1..MaxServerWatchers : WatcherError(w)
  \/ ImportFolder

\* The scan reports every file it finds; extractors and parser finish.
ScanFair ==
  /\ WF_vars(\E h \in Handlers : ScanEvent(h))
  /\ \A h \in Handlers : WF_vars(ResumeExtract(h))
  /\ \A h \in Handlers : WF_vars(ResumeParseEmail(h))
  /\ \A h \in Handlers : WF_vars(ResumeAttExtract(h))

FairScanSpec == InitScan /\ [][NextScan]_vars /\ ScanFair

\* The same with the data reset route.
FairResetSpec == InitScan /\ [][NextScan \/ ResetData]_vars /\ ScanFair

\* Messages with up to two attachments at the edges of the filter.
ParserScenarios ==
  { (F_mEml :> [ ok |-> TRUE, mail |-> << MailWith(atts) >> ]) :
      atts \in { << >> } \cup { <<a>> : a \in FilterAttachmentCases }
                \cup { <<a, b>> : a \in FilterAttachmentCases,
                                  b \in FilterAttachmentCases } }

InitParser ==
  /\ options = ServerOptions
  /\ folder \in ParserScenarios
  /\ Fresh

\* parseEmail(filepath) returns; the caller keeps what it returned.
ParseEmail(h) ==
  /\ NextHandler(h)
  /\ \E f \in DOMAIN folder :
       handlers' = [ handlers EXCEPT
                       ![h].file = f, ![h].pc = "parsed",
                       ![h].email = << parseEmail(f, folder[f].mail[1]) >> ]
  /\ UNCHANGED << options, server, modal, watchers, currentWatcher, store, disk, tasks, folder,
                  importResults >>

NextParser == \E h \in Handlers : ParseEmail(h)

\* parseEmail on its own, called on messages at the edges of its filter.
ParserSpec == InitParser /\ [][NextParser]_vars

\* Both callbacks given, an onNewFile that throws for two of the files.
CallbackOptions ==
  [ processImmediately |-> FALSE, onNewFile |-> TRUE, onError |-> TRUE,
    onNewFileThrows |-> { F_aTxt, F_mEml } ]

CallbackScenarios ==
  { (F_aTxt :> Readable(SomeText)),
    (F_qPdf :> Readable(SomeText)),
    (F_mEml :> [ ok |-> TRUE, mail |-> <<Mail_atts>> ])
      @@ (F_nEml :> [ ok |-> TRUE, mail |-> <<Mail_atts>> ]) }

InitCallback ==
  /\ options = CallbackOptions
  /\ folder \in CallbackScenarios
  /\ Fresh

\* The watcher with callbacks of the caller that may throw.
CallbackSpec == InitCallback /\ [][NextServer]_vars

\* Paths with a directory that begins with a dot, with a directory that
\* holds '~$', below a watch folder given as '../w', and the paths the
\* attachments of Mail_atts are staged on.
HiddenDir   == <<"w","/",".","h">>
LockDir     == <<"w","/","d","~","$">>
UpFolder    == <<".",".","/","w">>
StagingDir  == join(WatchFolder, AttachDirName)
F_hidden    == join(HiddenDir, <<"a",".","t","x","t">>)
F_lockDir   == join(LockDir, <<"a",".","t","x","t">>)
F_up        == join(UpFolder, <<"a",".","t","x","t">>)
F_stagedTxt == join(StagingDir, Att_txt.filename)
F_stagedPdf == join(StagingDir, Att_pdf.filename)

\* Folder contents with such paths; a staged path with what reading the
\* file gives once it is there.
PathScenarios ==
  { (F_hidden :> Readable(SomeText)) @@ (F_aTxt :> Readable(SomeText)),
    (F_lockDir :> Readable(SomeText)) @@ (F_qPdf :> Readable(SomeText)),
    (F_up :> Readable(SomeText)),
    (F_mEml :> [ ok |-> TRUE, mail |-> <<Mail_atts>> ])
      @@ (F_stagedTxt :> Readable(SomeText))
      @@ (F_stagedPdf :> Readable(SomeText)) }

InitPath ==
  /\ options = ServerOptions
  /\ folder \in PathScenarios
  /\ Fresh

\* startWatcher(watchFolder, options) with the folder as the caller wrote it.
StartWatcherAt ==
  /\ watchers = << >>
  /\ \E watchFolder \in { WatchFolder, UpFolder } :
       watchers' = startWatcher(watchers, watchFolder, "transcript")
  /\ currentWatcher' = Len(watchers')
  /\ UNCHANGED << options, server, modal, store, disk, tasks, handlers, folder, importResults >>

\* f exists: a staged path only once saveAttachments has written it.
OnDisk(f) == f \in DOMAIN folder /\ (dirname(f) = StagingDir => f \in DOMAIN disk)

\* The add handler is called with a path below the watcher's folder, in
\* whatever directory it lies.
AddBelow(h) ==
  /\ NextHandler(h)
  /\ \E w \in 1..Len(watchers), f \in DOMAIN folder :
       /\ ~watchers[w].closed
       /\ Below(watchers[w].folder, f)
       /\ OnDisk(f)
       /\ addHandler(h, f, FALSE)
  /\ UNCHANGED << options, server, modal, watchers, currentWatcher, folder, importResults >>

\* The order in which fs.readdirSync lists these paths.
PathListingOrder ==
  << F_hidden, F_lockDir, F_up, F_aTxt, F_stagedPdf, F_mEml, F_stagedTxt, F_qPdf >>

\* importFolder(folderPath) on one of the directories.
ImportFolderAt ==
  \E folderPath \in { WatchFolder, UpFolder, HiddenDir, LockDir, StagingDir } :
    LET files == SelectSeq(PathListingOrder,
                           LAMBDA f : OnDisk(f) /\ dirname(f) = folderPath)
        st == [ store |-> store, disk |-> disk, tasks |-> tasks,
                log |-> << >>, thrown |-> FALSE,
                n |-> Cardinality({ r \in store : r.id[1] = 0 }) ]
        r == importLoop(folderPath, st, << >>,
                        [ i \in 1..Len(files) |-> basename(files[i]) ], folder)
    IN /\ store' = r.st.store
       /\ disk' = r.st.disk
       /\ tasks' = r.st.tasks
       /\ importResults' = r.results
       /\ UNCHANGED << options, server, modal, watchers, currentWatcher, handlers, folder >>

NextPath ==
  \/ StartWatcherAt
  \/ \E h \in Handlers : AddBelow(h)
  \/ \E h \in Handlers : ResumeExtract(h)
  \/ \E h \in Handlers : ResumeParseEmail(h)
  \/ \E h \in Handlers : ResumeAttExtract(h)
  \/ ImportFolderAt

\* The watcher and importFolder on paths with dot-directories, '..' and
\* '~$', and on the staging directory.
PathSpec == InitPath /\ [][NextPath]_vars

\* The folders fs.existsSync finds, and one it does not find.
ExistingFolders == { WatchFolder, NewFolder, EmailFolder }
MissingFolder   == <<"g">>

\* A folder check that finds every folder.
folderExistsAlways(f) == TRUE

\* fs.existsSync(newFolder)
folderExists(f) == f \in ExistingFolders

\* A confirmation check that takes any token.
confirmedAny(confirm) == confirm # NoVal

\* confirm === 'RESET_ALL_DATA'
confirmed(confirm) == confirm = "RESET_ALL_DATA"

\* res.status(status).json(body) of `handler` to the request.
Respond(srv, method, path, req, handler, status, body) ==
  [ srv EXCEPT !.response =
      [ seq |-> 1 - srv.response.seq, method |-> method, path |-> path,
        req |-> req, handler |-> handler, status |-> status, body |-> body ] ]

\* process.env.EMAIL_FOLDER || EMAIL_FOLDER || ''
currentEmailFolder(srv) ==
  IF srv.envEmailFolder # << >> THEN srv.envEmailFolder ELSE srv.EMAIL_FOLDER

\* The routes of the segment group in the order of their registration;
\* a path is the sequence of its segments.
SegmentRoutes ==
  << [ method |-> "GET", pattern |-> <<"api", "segments">>,
       handler |-> "listSegments" ],
     [ method |-> "GET", pattern |-> <<"api", "segments", ":id", "tags">>,
       handler |-> "getSegmentTags" ],
     [ method |-> "GET", pattern |-> <<"api", "segments", ":id">>,
       handler |-> "getSegment" ],
     [ method |-> "GET", pattern |-> <<"api", "segments", "search">>,
       handler |-> "searchSegments" ] >>

\* The route matches the request: same method, same number of segments,
\* each segment equal to the pattern's or taken by a parameter.
RouteMatches(route, method, path) ==
  /\ route.method = method
  /\ Len(route.pattern) = Len(path)
  /\ \A i \in 1..Len(path) :
       route.pattern[i] = ":id" \/ route.pattern[i] = path[i]

\* Express hands the request to the first route registered that matches.
Dispatch(routes, method, path) ==
  IF \E i \in 1..Len(routes) : RouteMatches(routes[i], method, path)
  THEN routes[CHOOSE i \in 1..Len(routes) :
                /\ RouteMatches(routes[i], method, path)
                /\ \A j \in 1..(i - 1) : ~RouteMatches(routes[j], method, path)]
         .handler
  ELSE "notFound"

\* The ids of the segments the store holds.
SegmentIds == { "7" }

\* The environment the server is started in, before it starts its watchers.
InitApi ==
  /\ options = ServerOptions
  /\ folder = (F_aTxt :> Readable(SomeText))
  /\ \E emailFolder \in { << >>, EmailFolder } :
       server = [ ServerUnset EXCEPT !.WATCH_FOLDER = WatchFolder,
                                     !.EMAIL_FOLDER = emailFolder,
                                     !.envEmailFolder = emailFolder ]
  /\ modal = ModalMounted
  /\ watchers = << >>
  /\ currentWatcher = 0
  /\ store = {}
  /\ disk = << >>
  /\ tasks = << >>
  /\ handlers = [ h \in Handlers |-> IdleHandler ]
  /\ importResults = << >>

\* The server module runs: startWatcher(WATCH_FOLDER, ...) and, when
\* EMAIL_FOLDER is set, emailWatcher = startWatcher(EMAIL_FOLDER, ...).
ServerBoot ==
  /\ watchers = << >>
  /\ watchers' = IF server.EMAIL_FOLDER # << >>
                 THEN startWatcher(startWatcher(watchers, server.WATCH_FOLDER,
                                                "transcript"),
                                   server.EMAIL_FOLDER, "email")
                 ELSE startWatcher(watchers, server.WATCH_FOLDER, "transcript")
  /\ currentWatcher' = Len(watchers')
  /\ server' = [ server EXCEPT !.emailWatcher =
                   IF server.EMAIL_FOLDER # << >> THEN Len(watchers') ELSE 0 ]
  /\ UNCHANGED << options, store, disk, tasks, handlers, folder, importResults,
                  modal >>

\* GET /api/config/watch-folder
GetWatchFolder ==
  /\ watchers # << >>
  /\ server' = Respond(server, "GET", <<"api", "config", "watch-folder">>, << >>,
                       "getWatchFolder", 200,
                       [ watchFolder |-> server.WATCH_FOLDER ])
  /\ UNCHANGED << options, watchers, currentWatcher, store, disk, tasks,
                  handlers, folder, importResults, modal >>

\* GET /api/config/email-folder
GetEmailFolder ==
  /\ watchers # << >>
  /\ server' = Respond(server, "GET", <<"api", "config", "email-folder">>, << >>,
                       "getEmailFolder", 200,
                       [ emailFolder |-> currentEmailFolder(server) ])
  /\ UNCHANGED << options, watchers, currentWatcher, store, disk, tasks,
                  handlers, folder, importResults, modal >>

\* GET /api/health, the two folders of its body.
GetHealth ==
  /\ watchers # << >>
  /\ server' = Respond(server, "GET", <<"api", "health">>, << >>, "getHealth", 200,
                       [ watchFolder |-> server.WATCH_FOLDER,
                         emailFolder |-> currentEmailFolder(server) ])
  /\ UNCHANGED << options, watchers, currentWatcher, store, disk, tasks,
                  handlers, folder, importResults, modal >>

\* PUT /api/config/watch-folder with body { watchFolder: newFolder }
\* (<< >>: the field is missing or empty).
PutWatchFolderRequest ==
  /\ watchers # << >>
  /\ \E newFolder \in { << >>, MissingFolder, NewFolder, EmailFolder } :
       LET answer(status, body) ==
             Respond(server, "PUT", <<"api", "config", "watch-folder">>,
                     newFolder, "putWatchFolder", status, body)
       IN IF newFolder = << >> \/ ~folderExists(newFolder)
          THEN /\ server' = answer(400, [ error |-> TRUE ])
               /\ UNCHANGED << watchers, currentWatcher >>
          ELSE /\ Len(watchers) < MaxServerWatchers
               /\ watchers' = startWatcher(close(watchers, currentWatcher),
                                           newFolder, "transcript")
               /\ currentWatcher' = Len(watchers')
               /\ server' = answer(200, [ watchFolder |-> newFolder ])
  /\ UNCHANGED << options, store, disk, tasks, handlers, folder, importResults,
                  modal >>

\* PUT /api/config/email-folder with body { emailFolder: newFolder }.
PutEmailFolderRequest ==
  /\ watchers # << >>
  /\ \E newFolder \in { << >>, MissingFolder, NewFolder, EmailFolder } :
       LET answer(srv, status, body) ==
             Respond(srv, "PUT", <<"api", "config", "email-folder">>,
                     newFolder, "putEmailFolder", status, body)
       IN IF newFolder = << >> \/ ~folderExists(newFolder)
          THEN /\ server' = answer(server, 400, [ error |-> TRUE ])
               /\ UNCHANGED << watchers, currentWatcher >>
          ELSE /\ Len(watchers) < MaxServerWatchers
               /\ watchers' = startWatcher(close(watchers, server.emailWatcher),
                                           newFolder, "email")
               /\ currentWatcher' = Len(watchers')
               /\ server' = answer([ server EXCEPT
                                       !.emailWatcher = Len(watchers'),
                                       !.envEmailFolder = newFolder ],
                                   200, [ emailFolder |-> newFolder ])
  /\ UNCHANGED << options, store, disk, tasks, handlers, folder, importResults,
                  modal >>

\* POST /api/data/reset with body { confirm } (NoVal: no confirm field).
PostDataReset ==
  /\ watchers # << >>
  /\ \E confirm \in { "RESET_ALL_DATA", "reset_all_data", "", NoVal } :
       LET answer(status) ==
             Respond(server, "POST", <<"api", "data", "reset">>, confirm,
                     "resetData", status, [ none |-> TRUE ])
       IN IF ~confirmed(confirm)
          THEN /\ server' = answer(400)
               /\ store' = store
          ELSE /\ server' = answer(200)
               /\ store' = { }
  /\ UNCHANGED << options, watchers, currentWatcher, disk, tasks, handlers,
                  folder, importResults, modal >>

\* GET on a path of the segment group, q the query parameter (<< >>: none).
GetSegments ==
  /\ watchers # << >>
  /\ \E path \in { <<"api", "segments">>, <<"api", "segments", "7">>,
                    <<"api", "segments", "7", "tags">>,
                    <<"api", "segments", "search">> },
        q \in { << >>, <<"renewal">> } :
       LET handler == Dispatch(SegmentRoutes, "GET", path)
           status  == IF handler = "getSegment" /\ path[3] \notin SegmentIds
                      THEN 404
                      ELSE IF handler = "searchSegments" /\ q = << >> THEN 400
                      ELSE 200
       IN server' = Respond(server, "GET", path, q, handler, status,
                            [ none |-> TRUE ])
  /\ UNCHANGED << options, watchers, currentWatcher, store, disk, tasks,
                  handlers, folder, importResults, modal >>

NextApi ==
  \/ ServerBoot
  \/ GetWatchFolder
  \/ GetEmailFolder
  \/ GetHealth
  \/ PutWatchFolderRequest
  \/ PutEmailFolderRequest
  \/ PostDataReset
  \/ GetSegments
  \/ \E h \in Handlers : AddEvent(h)

\* The API server: its configuration, reset and segment routes, next to
\* the watchers it runs.
ApiSpec == InitApi /\ [][NextApi]_vars

\* resetState sets every voice state but isRecording, which it keeps.
resetRecording(isRecording) == isRecording

InitModal ==
  /\ options = ServerOptions
  /\ folder = (F_aTxt :> Readable(SomeText))
  /\ Fresh

\* The floating button: setIsOpen(true).
OpenModal ==
  /\ ~modal.isOpen
  /\ modal' = [ modal EXCEPT !.isOpen = TRUE ]
  /\ UNCHANGED << options, watchers, currentWatcher, store, disk, tasks,
                  handlers, folder, importResults, server >>

\* startRecording, from the button shown while there is neither a
\* transcript nor a recording: a new recognition and a new timer.
StartRecording ==
  /\ modal.isOpen
  /\ modal.voiceTranscript = << >>
  /\ ~modal.isRecording
  /\ modal' = [ modal EXCEPT !.recognition = "running",
                              !.fullTranscript = << >>,
                              !.isRecording = TRUE,
                              !.voiceTranscript = << >>,
                              !.voiceError = FALSE,
                              !.voiceTimer = 0,
                              !.timerOn = TRUE ]
  /\ UNCHANGED << options, watchers, currentWatcher, store, disk, tasks,
                  handlers, folder, importResults, server >>

\* recognition.onresult with a final result: fullTranscript += text + ' '.
SpeechResult ==
  /\ modal.recognition \in { "running", "stopping" }
  /\ Len(modal.fullTranscript) < 2 * MaxWords
  /\ modal' = [ modal EXCEPT !.fullTranscript = @ \o << "word", " " >> ]
  /\ UNCHANGED << options, watchers, currentWatcher, store, disk, tasks,
                  handlers, folder, importResults, server >>

\* The interval of timerRef fires: setVoiceTimer(prev => prev + 1).
TimerTick ==
  /\ modal.timerOn
  /\ modal.voiceTimer < MaxTimer
  /\ modal' = [ modal EXCEPT !.voiceTimer = @ + 1 ]
  /\ UNCHANGED << options, watchers, currentWatcher, store, disk, tasks,
                  handlers, folder, importResults, server >>

\* stopRecording, from the button shown while recording:
\* recognitionRef.current.stop() and clearInterval(timerRef.current).
StopRecording ==
  /\ modal.isOpen
  /\ modal.isRecording
  /\ modal' = [ modal EXCEPT
                  !.recognition = IF @ = "running" THEN "stopping" ELSE @,
                  !.timerOn = FALSE ]
  /\ UNCHANGED << options, watchers, currentWatcher, store, disk, tasks,
                  handlers, folder, importResults, server >>

\* recognition.onerror: setVoiceError(message), then stopRecording().
RecognitionError ==
  /\ modal.recognition = "running"
  /\ modal' = [ modal EXCEPT !.voiceError = TRUE,
                              !.recognition = "stopping",
                              !.timerOn = FALSE ]
  /\ UNCHANGED << options, watchers, currentWatcher, store, disk, tasks,
                  handlers, folder, importResults, server >>

\* recognition.onend, after stop() or when the recognition stops by itself.
RecognitionEnd ==
  /\ modal.recognition \in { "running", "stopping" }
  /\ modal' = [ modal EXCEPT !.voiceTranscript = Trim(modal.fullTranscript),
                              !.isRecording = FALSE,
                              !.timerOn = FALSE,
                              !.recognition = "ended" ]
  /\ UNCHANGED << options, watchers, currentWatcher, store, disk, tasks,
                  handlers, folder, importResults, server >>

\* handleClose: setIsOpen(false); setTimeout(resetState, 300).
HandleClose ==
  /\ modal.isOpen
  /\ modal' = [ modal EXCEPT !.isOpen = FALSE, !.resetPending = TRUE ]
  /\ UNCHANGED << options, watchers, currentWatcher, store, disk, tasks,
                  handlers, folder, importResults, server >>

\* The timeout of handleClose fires: resetState().
ResetState ==
  /\ modal.resetPending
  /\ modal' = [ modal EXCEPT
                  !.voiceTranscript = << >>,
                  !.voiceTimer = 0,
                  !.voiceError = FALSE,
                  !.isRecording = resetRecording(@),
                  !.recognition = IF @ = "running" THEN "stopping" ELSE @,
                  !.timerOn = FALSE,
                  !.resetPending = FALSE ]
  /\ UNCHANGED << options, watchers, currentWatcher, store, disk, tasks,
                  handlers, folder, importResults, server >>

NextModal ==
  \/ OpenModal
  \/ StartRecording
  \/ SpeechResult
  \/ TimerTick
  \/ StopRecording
  \/ RecognitionError
  \/ RecognitionEnd
  \/ HandleClose
  \/ ResetState

\* CaptureModal: its voice memo tab, opened, used and closed.
ModalSpec == InitModal /\ [][NextModal]_vars

\* A folder to import: a file that cannot be read listed before readable
\* ones, a blank file, an unsupported one and an ignored one.
ImportScenario ==
  (F_aDocx :> Failure) @@ (F_aTxt :> Readable(SomeText))
    @@ (F_dTxt :> Readable(BlankText))
    @@ (F_xCsv :> Readable(SomeText)) @@ (F_tmp :> Readable(SomeText))

InitImport ==
  /\ options \in OptionSets
  /\ folder = ImportScenario
  /\ Fresh

\* importFolder called while the watcher is, or is not, at work on the
\* same folder.
NextImport ==
  \/ StartWatcher
  \/ \E h \in Handlers : AddEvent(h)
  \/ \E h \in Handlers : ResumeExtract(h)
  \/ ImportFolder

ImportSpec == InitImport /\ [][NextImport]_vars

\* The extractors and the email parser finish (they return or throw); the
\* analysis of a record is not assumed to finish.
FairSpec ==
  /\ Spec
  /\ \A h \in Handlers : WF_vars(ResumeExtract(h))
  /\ \A h \in Handlers : WF_vars(ResumeParseEmail(h))
  /\ \A h \in Handlers : WF_vars(ResumeAttExtract(h))

-----------------------------------------------------------------------------
(* Properties *)

Log(h) == handlers[h].log
Idx(h) == 1..Len(handlers[h].log)
Started(h) == handlers[h].pc # "idle"
Finished(h) == handlers[h].pc \in {"done", "rejected", "killed"}

\* How often run h took step e for record id.
CountEv(h, e, id) ==
  Cardinality({ i \in Idx(h) : Log(h)[i].ev = e /\ Log(h)[i].id = id })

\* Records created by the 'add' handler (not by importFolder).
WatcherRecords == { r \in store : r.id[1] # 0 }

CalledCreate(h, filepath) ==
  \E i \in Idx(h) : Log(h)[i] = Ev("createTranscript", NoId, filepath)

\* C2: of two handler runs for the same filepath at most one passes the
\* existence check and calls createTranscript for that path.
C2_AtMostOnePassesCheck ==
  \A h1 \in Handlers, h2 \in Handlers :
    (h1 # h2 /\ handlers[h1].file = handlers[h2].file)
      => ~(CalledCreate(h1, handlers[h1].file) /\ CalledCreate(h2, handlers[h2].file))

\* C3: a handler run that found a record for its file's path does nothing:
\* no createTranscript, no staged file, no dispatch, no callback; and
\* importFolder returns no entry for a file that had a record, and no step
\* removes or changes a record.
C3_ExistingSkipped ==
  /\ [](\A h \in Handlers :
          handlers[h].existed =>
            /\ Log(h) = << >>
            /\ handlers[h].n = 0
            /\ handlers[h].pc = "done")
  /\ [][ /\ \A r \in store : r \in store'
         /\ importResults' # importResults =>
              \A i \in 1..Len(importResults') :
                ~transcriptExists(store, importResults'[i].filepath) ]_vars

\* C3 witness: a run was started for a file that already had a record.
C3_Witness ==
  \E h \in Handlers : handlers[h].existed /\ handlers[h].pc = "done"

\* Each record run h created was handed to processTranscript exactly once,
\* after its creation and before the run created another record.
DispatchedOnce(h) ==
  \A i \in Idx(h) :
    Log(h)[i].ev = "created" =>
      /\ CountEv(h, "processTranscript", Log(h)[i].id) = 1
      /\ \E j \in Idx(h) :
           /\ j > i
           /\ Log(h)[j] = Ev("processTranscript", Log(h)[i].id, << >>)
           /\ \A m \in (i+1)..(j-1) : Log(h)[m].ev # "created"

\* C4 as stated: every record the watcher creates is dispatched exactly
\* once, after its create call and before the next record of the handler.
C4_AlwaysDispatched == \A h \in Handlers : DispatchedOnce(h)

\* C4 amended: with processImmediately enabled every record the watcher
\* creates is dispatched exactly once, after its create call and before the
\* next record of the handler; with it disabled no record is dispatched.
C4_DispatchedWhenEnabled ==
  /\ options.processImmediately => \A h \in Handlers : DispatchedOnce(h)
  /\ ~options.processImmediately =>
       /\ tasks = << >>
       /\ \A h \in Handlers : \A i \in Idx(h) : Log(h)[i].ev # "processTranscript"

\* C4 witness: with processImmediately enabled a run created two records.
C4_Witness ==
  options.processImmediately /\ \E h \in Handlers : handlers[h].n >= 2

\* C5: when the analysis of a record is rejected the record stays in the
\* store unchanged, no handler run is touched (no onError, nothing undone),
\* and the record of a rejected analysis is still there afterwards.
C5_AnalysisFailureContained ==
  /\ [](\A id \in DOMAIN tasks :
          tasks[id] = "rejected" => \E r \in store : r.id = id)
  /\ [][ (\E id \in DOMAIN tasks : tasks[id] = "pending" /\ tasks'[id] = "rejected")
           => /\ store' = store
              /\ handlers' = handlers
              /\ disk' = disk ]_vars

\* C5 witness: the analysis of an email's record was rejected and the run
\* went on to create an attachment record.
C5_Witness ==
  \E id \in DOMAIN tasks :
    /\ tasks[id] = "rejected"
    /\ id[1] # 0
    /\ handlers[id[1]].n >= 2
    /\ handlers[id[1]].pc = "done"

\* C6: ingestion does not wait for analysis: the callback for a record is
\* invoked in the step that dispatches it, and every started run finishes
\* although no analysis is ever required to finish.
C6_NeverWaitsForAnalysis ==
  /\ [](\A h \in Handlers : \A i \in Idx(h) :
          (Log(h)[i].ev = "processTranscript" /\ options.onNewFile) =>
            /\ i + 1 \in Idx(h)
            /\ Log(h)[i+1].ev = "onNewFile"
            /\ Log(h)[i+1].id = Log(h)[i].id)
  /\ \A h \in Handlers : Started(h) ~> Finished(h)

\* C6 witness: a run finished after creating two records while the
\* analysis of its first record is still pending.
C6_Witness ==
  \E h \in Handlers :
    /\ handlers[h].pc = "done"
    /\ handlers[h].n >= 2
    /\ << h, 1 >> \in DOMAIN tasks
    /\ tasks[<< h, 1 >>] = "pending"

\* C7: with onNewFile given, each record a run created made the run invoke
\* onNewFile exactly once, after the creation, with the record's id and the
\* filepath stored in the record; onNewFile is invoked for nothing else.
C7_NotifiedOncePerRecord ==
  /\ options.onNewFile =>
       \A r \in WatcherRecords :
         LET h == r.id[1] IN
           /\ CountEv(h, "onNewFile", r.id) = 1
           /\ \E i \in Idx(h), j \in Idx(h) :
                /\ i < j
                /\ Log(h)[i] = Ev("created", r.id, r.filepath)
                /\ Log(h)[j] = Ev("onNewFile", r.id, r.filepath)
  /\ \A h \in Handlers : \A j \in Idx(h) :
       Log(h)[j].ev = "onNewFile" =>
         /\ options.onNewFile
         /\ \E r \in WatcherRecords :
              r.id = Log(h)[j].id /\ r.id[1] = h /\ r.filepath = Log(h)[j].filepath

\* C7 witness: with onNewFile given, a run created two records.
C7_Witness ==
  options.onNewFile /\ \E h \in Handlers : handlers[h].n >= 2

\* The filenames C8 names.
NamedIgnored == { F_DSStore, F_tmp, F_gsheet, F_lockDocx, F_crdl, F_part }

\* C8: a file whose name matches an ignore pattern never produces a record,
\* through the watcher or through importFolder: no record is stored for a
\* path whose base name matches a pattern or is one of the six names given,
\* and a handler run for such a file does nothing.
C8_IgnoredNeverIngested ==
  /\ \A r \in store :
       /\ ~MatchesIgnoredPattern(basename(r.filepath))
       /\ basename(r.filepath) \notin { basename(f) : f \in NamedIgnored }
  /\ \A h \in Handlers :
       (Started(h) /\ MatchesIgnoredPattern(basename(handlers[h].file)))
         => (Log(h) = << >> /\ handlers[h].pc = "done")

\* C9: a watched file has a watcher-made record only if its lower-cased
\* extension is one of the seven supported ones; a run for any other file
\* does nothing.
C9_OnlySupportedExtensions ==
  /\ \A r \in WatcherRecords :
       r.filepath \in DOMAIN folder =>
         toLowerCase(extname(r.filepath)) \in SUPPORTED_EXTENSIONS
  /\ \A h \in Handlers :
       (Started(h) /\ toLowerCase(extname(handlers[h].file)) \notin SUPPORTED_EXTENSIONS)
         => (Log(h) = << >> /\ handlers[h].pc = "done" /\ handlers[h].n = 0)

\* C9 witness: 'A.TXT' has a record made by the watcher and a run for
\* 'x.csv' has ended.
C9_Witness ==
  /\ \E r \in WatcherRecords : r.filepath = F_upperTxt
  /\ \E h \in Handlers : handlers[h].file = F_xCsv /\ handlers[h].pc = "done"

TextExtensions ==
  { <<".","t","x","t">>, <<".","m","d">>, <<".","j","s","o","n">>,
    <<".","s","r","t">> }

\* C10: the record the watcher makes for a text, PDF or DOCX file takes its
\* callDate and context from the filename when the filename parser yields
\* them, else from the content (text family) or the defaults (PDF, DOCX).
C10_FilenamePrecedence ==
  \A r \in WatcherRecords :
    LET ext  == toLowerCase(extname(r.filepath))
        name == basename(r.filepath)
        meta == parseFilenameMetadata(name)
        isText == ext \in TextExtensions
    IN (r.filepath \in DOMAIN folder /\ (isText \/ ext \in AwaitedExtensions)) =>
         /\ r.callDate = IF meta.date # NoVal THEN meta.date
                         ELSE IF isText THEN "D1" ELSE Now
         /\ r.context = IF meta.callType # NoVal THEN << meta.callType >>
                        ELSE IF isText THEN << "K1" >>
                        ELSE << "Watched file: " >> \o name

\* C10 witness: the watcher made records for 'd.txt' (date and call type in
\* the name, other values in the content) and for 'a.docx' (call type only).
C10_Witness ==
  /\ \E r \in WatcherRecords : r.filepath = F_dTxt
  /\ \E r \in WatcherRecords : r.filepath = F_aDocx

\* C11: every record the watcher makes, email body and attachment records
\* included, has the callDate and the context the filename parser infers
\* from the record's filename, when it infers them.
C11_FilenameOverridesEverywhere ==
  \A r \in WatcherRecords :
    LET meta == parseFilenameMetadata(r.filename)
    IN /\ meta.date # NoVal => r.callDate = meta.date
       /\ meta.callType # NoVal => r.context = << meta.callType >>

\* The text of an attachment record after its provenance header (the part
\* that follows the '---' line).
AfterHeader(raw) ==
  LET i == CHOOSE j \in 1..Len(raw) :
             raw[j] = "---" /\ \A m \in 1..(j-1) : raw[m] # "---"
  IN SubSeq(raw, i + 1, Len(raw))

\* C12: no record of the watcher holds empty or whitespace-only extracted
\* text: not for a text-family file, not for a PDF or DOCX, not for an
\* email attachment.
C12_BlankNeverRecorded ==
  \A r \in WatcherRecords :
    IF r.filepath \in DOMAIN folder
    THEN toLowerCase(extname(r.filepath)) # <<".","e","m","l">>
           => ~IsBlank(r.rawContent)
    ELSE ~IsBlank(AfterHeader(r.rawContent))

\* C13: no handler run ends with an exception that nothing catches, whatever
\* fails while it handles its file.
C13_FailuresContained ==
  \A h \in Handlers : handlers[h].pc # "rejected"

\* Run h dropped a document because its extraction failed.
DroppedOnFailure(h) ==
  \E i \in Idx(h) : Log(h)[i].ev = "attachmentFailed"

\* C14: nothing recorded in a pass that dropped a document for a failed
\* extraction keeps a later add event for the same source file from
\* processing it again: such an event is never skipped as already processed.
C14_FailedPassRetried ==
  \A h1 \in Handlers, h2 \in Handlers :
    (/\ h1 # h2
     /\ handlers[h1].pc = "done"
     /\ DroppedOnFailure(h1)
     /\ handlers[h2].file = handlers[h1].file)
      => ~handlers[h2].existed

\* The staged paths of run h, in staging order.
Staged(h) == SelectSeq(Log(h), LAMBDA e : e.ev = "stage")

\* Run h gave up attachment p: its extraction threw or its text was blank.
DroppedAttachment(h, p) ==
  \E i \in Idx(h) : /\ Log(h)[i].ev \in {"attachmentFailed", "attachmentEmpty"}
                    /\ Log(h)[i].filepath = p

StagedSeparately ==
  /\ \A h1 \in Handlers, h2 \in Handlers :
       \A i \in 1..Len(Staged(h1)), j \in 1..Len(Staged(h2)) :
         Staged(h1)[i].filepath = Staged(h2)[j].filepath => h1 = h2 /\ i = j
  /\ \A h \in Handlers : \A i \in 1..Len(Staged(h)) :
       Staged(h)[i].filepath \in DOMAIN disk
  /\ \A h \in Handlers : \A i \in 1..Len(Staged(h)) :
       LET p == Staged(h)[i].filepath
       IN (/\ handlers[h].pc = "done"
           /\ toLowerCase(extname(p)) \in ATTACHMENT_EXTENSIONS
           /\ ~DroppedAttachment(h, p))
            => \E r \in store : r.filepath = p /\ r.id[1] = h

StagedOnFreePath ==
  \A h \in Handlers :
    \A i \in (Len(handlers[h].log) + 1)..Len(handlers'[h].log) :
      handlers'[h].log[i].ev = "stage"
        => /\ handlers'[h].log[i].filepath \notin DOMAIN disk
           /\ handlers'[h].log[i].filepath \in DOMAIN disk'

\* C15: saveAttachments never writes to a path that exists: every path it
\* returns was free when it ran, and the paths staged by all runs are
\* pairwise distinct, so attachments of the same name (in one email, in two
\* emails of one directory, or equal once sanitized) are staged apart; each
\* staged attachment of a supported type whose text was extracted and is not
\* blank has its own record once the run is done.
C15_NeverOverwrites ==
  /\ []StagedSeparately
  /\ [][StagedOnFreePath /\ \A p \in DOMAIN disk :
                              p \in DOMAIN disk' /\ disk'[p] = disk[p]]_vars

\* C15 witness: two emails of one folder, each carrying the same three
\* attachments, were handled: six staged files and six attachment records.
C15_Witness ==
  /\ Cardinality(DOMAIN disk) = 6
  /\ Cardinality({ r \in store : r.filepath \in DOMAIN disk }) = 6
  /\ \E h1 \in Handlers, h2 \in Handlers :
       /\ handlers[h1].pc = "done" /\ Len(Staged(h1)) = 3
       /\ handlers[h2].pc = "done" /\ Len(Staged(h2)) = 3
       /\ handlers[h1].file # handlers[h2].file

\* Run h handled an email file and created its body record.
BodyCreated(h) ==
  /\ toLowerCase(extname(handlers[h].file)) = <<".","e","m","l">>
  /\ \E i \in Idx(h) : Log(h)[i].ev = "created" /\ Log(h)[i].filepath = handlers[h].file

\* The message in the email file of run h, and its subject as parsed.
MailOf(h) == folder[handlers[h].file].mail[1]
SubjectOf(h) ==
  IF MailOf(h).subject \in {NoVal, ""} THEN "(No Subject)" ELSE MailOf(h).subject

\* The retained attachments of supported type in the email of run h, less
\* those whose text could not be extracted or was blank.
UsableAttachments(h) ==
  Cardinality({ i \in 1..Len(MailOf(h).attachments) :
                  /\ RetainAttachment(MailOf(h).attachments[i])
                  /\ toLowerCase(extname(SafeName(MailOf(h).attachments[i].filename)))
                       \in ATTACHMENT_EXTENSIONS })
  - Cardinality({ i \in Idx(h) :
                    Log(h)[i].ev \in {"attachmentFailed", "attachmentEmpty"} })

\* C16: a run that handled an email with subject S and N retained
\* attachments of supported type with non-blank extractable text leaves
\* exactly 1 + N records: the body record (context 'Email: S', filepath the
\* .eml path) and one record per attachment, with context
\* 'Attachment: <staged name> (from "S")', the staged path as filepath and a
\* content that starts with the provenance header.
C16_OnePlusNRecords ==
  \A h \in Handlers :
    (handlers[h].pc = "done" /\ BodyCreated(h)) =>
      LET mine == { r \in store : r.id[1] = h }
          body == { r \in mine : r.filepath = handlers[h].file }
      IN /\ Cardinality(mine) = 1 + UsableAttachments(h)
         /\ Cardinality(body) = 1
         /\ \A r \in body : r.context = << "Email: ", SubjectOf(h) >>
         /\ \A r \in mine \ body :
              /\ \E i \in 1..Len(Staged(h)) : Staged(h)[i].filepath = r.filepath
              /\ r.context = << "Attachment: " >> \o basename(r.filepath)
                               \o << " (from \"", SubjectOf(h), "\")" >>
              /\ SubSeq(r.rawContent, 1, 3)
                   = << "[Attachment from email]", "\n",
                        "Email Subject: " \o SubjectOf(h) >>
              /\ Contains(r.rawContent,
                          << "Attachment: " >> \o basename(r.filepath))

\* C16 witness: an email with an unsupported, a text and a PDF attachment
\* was handled and left three records: its body and two attachments.
C16_Witness ==
  \E h \in Handlers :
    /\ handlers[h].pc = "done" /\ BodyCreated(h)
    /\ MailOf(h) = Mail_atts
    /\ UsableAttachments(h) = 2
    /\ Cardinality({ r \in store : r.id[1] = h }) = 3

\* C17: in every run, a record of an attachment is created after the body
\* record of the email the run handles, and a stored attachment record has
\* the body record of its email, created by the same run, beside it.
C17_BodyBeforeAttachments ==
  /\ \A h \in Handlers : \A i \in Idx(h) :
       (Log(h)[i].ev = "created" /\ Log(h)[i].filepath # handlers[h].file)
         => \E j \in 1..(i - 1) : /\ Log(h)[j].ev = "created"
                                  /\ Log(h)[j].filepath = handlers[h].file
                                  /\ Log(h)[j].id = << h, 1 >>
  /\ \A r \in WatcherRecords :
       r.filepath \in DOMAIN disk
         => \E b \in store : /\ b.id = << r.id[1], 1 >>
                             /\ b.filepath = handlers[r.id[1]].file
                             /\ toLowerCase(extname(b.filepath)) = <<".","e","m","l">>

\* C17 witness: two runs handled the same email file; one created the body
\* and the attachment records, the other failed on the body and created
\* nothing.
C17_Witness ==
  \E h1 \in Handlers, h2 \in Handlers :
    /\ h1 # h2
    /\ handlers[h1].file = handlers[h2].file
    /\ handlers[h1].pc = "done" /\ handlers[h2].pc = "done"
    /\ BodyCreated(h1)
    /\ \E r \in store : r.id[1] = h1 /\ r.filepath \in DOMAIN disk
    /\ \E i \in Idx(h2) : Log(h2)[i].ev = "createTranscript"
    /\ { r \in store : r.id[1] = h2 } = { }

\* Run h is through with staged path p at log position i: its record was
\* created and handed on, or it was dropped.
SettledBefore(h, p, i) ==
  \/ toLowerCase(extname(p)) \notin ATTACHMENT_EXTENSIONS
  \/ \E j \in 1..(i - 1) :
       /\ Log(h)[j].filepath = p
       /\ Log(h)[j].ev \in {"created", "attachmentFailed", "attachmentEmpty"}

\* C18: within one email the attachments are handled strictly one after
\* another: when an attachment is staged to disk, every attachment staged
\* before it in the same run has been materialized or dropped.
C18_StrictlySequential ==
  \A h \in Handlers : \A i \in Idx(h), k \in Idx(h) :
    (k < i /\ Log(h)[k].ev = "stage" /\ Log(h)[i].ev = "stage")
      => SettledBefore(h, Log(h)[k].filepath, i)

\* The attachment types the handler turns into records.
AttachmentTypes ==
  { <<".","p","d","f">>, <<".","d","o","c","x">>, <<".","t","x","t">>,
    <<".","m","d">>, <<".","c","s","v">> }

\* C19: a stored attachment record has a staged filename whose lower-cased
\* extension is .pdf, .docx, .txt, .md or .csv; for a staged file of another
\* type no run calls createTranscript or onNewFile; and in a finished run
\* the supported attachments staged after such a file have their records
\* (unless their text could not be extracted or was blank).
C19_OnlySupportedAttachments ==
  /\ \A r \in store :
       r.filepath \in DOMAIN disk
         => toLowerCase(extname(basename(r.filepath))) \in AttachmentTypes
  /\ \A h \in Handlers : \A i \in Idx(h), k \in Idx(h) :
       LET p == Log(h)[k].filepath
       IN (/\ Log(h)[k].ev = "stage"
           /\ toLowerCase(extname(basename(p))) \notin AttachmentTypes)
            => /\ ~(Log(h)[i].filepath = p /\ Log(h)[i].ev # "stage")
               /\ (/\ handlers[h].pc = "done"
                   /\ k < i
                   /\ Log(h)[i].ev = "stage"
                   /\ toLowerCase(extname(basename(Log(h)[i].filepath)))
                        \in AttachmentTypes
                   /\ ~DroppedAttachment(h, Log(h)[i].filepath))
                    => \E r \in store : r.filepath = Log(h)[i].filepath

\* C19 witness: an email with x.exe, n.txt and c.pdf was handled: x.exe was
\* staged and has no record, the two attachments after it have theirs.
C19_Witness ==
  \E h \in Handlers :
    /\ handlers[h].pc = "done"
    /\ \E k \in Idx(h) :
         /\ Log(h)[k].ev = "stage"
         /\ extname(Log(h)[k].filepath) = <<".","e","x","e">>
         /\ ~\E r \in store : r.filepath = Log(h)[k].filepath
    /\ Cardinality({ r \in store : r.id[1] = h /\ r.filepath \in DOMAIN disk }) = 2

\* C20: once restartWatcher has run, the watcher that observed the
\* transcript folder before is closed: at most one transcript watcher is
\* open, also when the email watcher was started after the transcript
\* watcher.
C20_OldTranscriptWatcherClosed ==
  \A i \in 1..Len(watchers), j \in 1..Len(watchers) :
    (/\ watchers[i].role = "transcript" /\ ~watchers[i].closed
     /\ watchers[j].role = "transcript" /\ ~watchers[j].closed) => i = j

\* C21: a reconfiguration is atomic: in the step that starts the new
\* transcript watcher, every transcript watcher started before it is closed,
\* so the old and the new watcher are never active together.
C21_OldClosedWhenNewStarts ==
  [][(watchers # << >> /\ Len(watchers') > Len(watchers))
       => \A i \in 1..Len(watchers) :
            watchers[i].role = watchers'[Len(watchers')].role
              => watchers'[i].closed]_vars

\* Run h waits for an extractor or the email parser while no open watcher
\* observes the folder of its file any more.
Orphaned(h) ==
  /\ handlers[h].pc \in {"extract", "parseEmail", "attExtract"}
  /\ ~\E w \in 1..Len(watchers) :
        ~watchers[w].closed /\ watchers[w].folder = dirname(handlers[h].file)

\* C22: switching the watched folder cancels no handler: the step that
\* starts the new watcher leaves every run as it is, and a run that is
\* waiting when its watcher has been closed still comes to its end.
C22_InFlightCompletes ==
  /\ [][(watchers # << >> /\ Len(watchers') > Len(watchers))
          => handlers' = handlers]_vars
  /\ \A h \in Handlers : Orphaned(h) ~> handlers[h].pc \in {"done", "killed"}

\* C22 witness: the watched folder was switched while a run was waiting.
C22_Witness ==
  \E h \in Handlers :
    /\ Orphaned(h)
    /\ \E w \in 1..Len(watchers) :
         watchers[w].closed /\ watchers[w].folder = dirname(handlers[h].file)

\* The files of the scanned folders.
ScanFiles == { F_aTxt, F_qPdf, F_mEml, F_sub2, F_sub3, F_dotTxt, F_xCsv }

\* f is in the folder, of a supported type, not ignored and at most two
\* directories below the watch folder.
Backlog(f) ==
  /\ f \in DOMAIN folder
  /\ toLowerCase(extname(f)) \in SUPPORTED_EXTENSIONS
  /\ ~MatchesIgnoredPattern(basename(f))
  /\ Cardinality({ i \in (Len(WatchFolder) + 2)..Len(f) : f[i] = "/" }) <= 2

\* Reading, decoding or parsing f succeeds with text that is not blank.
Extractable(f) ==
  /\ folder[f].ok
  /\ toLowerCase(extname(f)) \in AwaitedExtensions => ~IsBlank(folder[f].content)

\* A watcher of the transcript folder is running.
Watching ==
  \E w \in 1..Len(watchers) :
    ~watchers[w].closed /\ watchers[w].folder = WatchFolder

\* C23: once a watcher runs, every supported, non-ignored file of its folder
\* (at most two directories deep) gets its add event and the run it starts
\* ends; when the run has ended the file has a record if its text could be
\* extracted and is not blank; a run for a file that had a record creates
\* none.
C23_BacklogRecovered ==
  /\ \A f \in ScanFiles :
       (Watching /\ Backlog(f))
         ~> (\E h \in Handlers : handlers[h].file = f /\ handlers[h].pc = "done")
  /\ [](\A h \in Handlers :
          (handlers[h].pc = "done" /\ Backlog(handlers[h].file))
            => /\ Extractable(handlers[h].file)
                    => \E r \in store : r.filepath = handlers[h].file
               /\ handlers[h].existed => handlers[h].n = 0)

\* A run for a file importFolder had recorded before the scan reported it.
ScannedAfterImport ==
  \E h \in Handlers :
    /\ handlers[h].file = F_aTxt /\ handlers[h].pc = "done"
    /\ handlers[h].existed /\ handlers[h].n = 0

\* C23 witness: the scan is over; the file two directories down has the
\* record its run created, the file three directories down was not reported.
C23_Witness ==
  /\ \E h \in Handlers :
       /\ handlers[h].file = F_sub2 /\ handlers[h].pc = "done"
       /\ \E r \in store : r.filepath = F_sub2 /\ r.id[1] = h
  /\ \A w \in 1..Len(watchers) :
       Observed(watchers[w].folder) \subseteq watchers[w].reported
  /\ ~\E h \in Handlers : handlers[h].file = F_sub3

\* C24: an 'error' event of a watcher calls onError once when there is one
\* and does nothing else: the watcher stays open and current, no run is
\* touched, and the watcher goes on reporting the files it has found.
C24_WatcherErrorSurfaced ==
  /\ [](\A w \in 1..Len(watchers) :
          watchers[w].errorCalls = IF options.onError THEN watchers[w].errors ELSE 0)
  /\ [][\A w \in 1..Len(watchers) :
          (Len(watchers') = Len(watchers) /\ watchers'[w].errors # watchers[w].errors)
            => /\ watchers'[w].closed = watchers[w].closed
               /\ currentWatcher' = currentWatcher
               /\ handlers' = handlers /\ store' = store]_vars
  /\ \A f \in ScanFiles :
       (\E w \in 1..Len(watchers) :
          /\ watchers[w].errors > 0
          /\ f \in Observed(watchers[w].folder) \ watchers[w].reported)
         ~> (\E h \in Handlers : handlers[h].file = f)

\* C24 witness: a watcher emitted 'error', the callback was called, and the
\* watcher reported a file afterwards.
C24_Witness ==
  \E w \in 1..Len(watchers) :
    /\ options.onError
    /\ watchers[w].errors = 1 /\ watchers[w].errorCalls = 1
    /\ watchers[w].reported # { }
    /\ currentWatcher >= w

\* C25: after a data reset the files of the watched folders are ingested
\* again without any restart: each supported file whose text can be
\* extracted has, sooner or later, a record again.
C25_ReingestedAfterReset ==
  \A f \in ScanFiles :
    (Watching /\ Backlog(f) /\ Extractable(f))
      ~> (\E r \in store : r.filepath = f)

\* The positions of the attachments of a message that have a filename and
\* are not both inline and smaller than 10240 bytes.
KeptPositions(atts) ==
  { i \in 1..Len(atts) :
      /\ atts[i].filename # << >>
      /\ ~(atts[i].contentDisposition = "inline" /\ atts[i].size < 10240) }

\* The j-th smallest element of the set of positions K.
NthPosition(K, j) == CHOOSE i \in K : Cardinality({ x \in K : x < i }) = j - 1

\* C26: parseEmail keeps an attachment exactly when it has a filename and
\* is not both inline and smaller than 10240 bytes; the kept ones carry
\* filename, content type, size and content unchanged, in their order, and
\* hasAttachments says whether one was kept.
C26_AttachmentFilter ==
  \A h \in Handlers :
    handlers[h].pc = "parsed" =>
      LET atts  == folder[handlers[h].file].mail[1].attachments
          email == handlers[h].email[1]
          K     == KeptPositions(atts)
      IN /\ Len(email.attachments) = Cardinality(K)
         /\ \A j \in 1..Len(email.attachments) :
              LET att == atts[NthPosition(K, j)]
              IN email.attachments[j] =
                   [ filename |-> att.filename, contentType |-> att.contentType,
                     size |-> att.size, content |-> att.content ]
         /\ email.hasAttachments = (K # { })

\* C26 witness: of an inline attachment of 10239 bytes followed by an
\* inline one of exactly 10240 bytes, parseEmail kept the second only.
C26_Witness ==
  \E h \in Handlers :
    /\ handlers[h].pc = "parsed"
    /\ folder[handlers[h].file].mail[1].attachments = << Att_inSmall, Att_inEdge >>
    /\ Len(handlers[h].email[1].attachments) = 1
    /\ handlers[h].email[1].attachments[1].filename = Att_inEdge.filename
    /\ handlers[h].email[1].hasAttachments

\* A record without its id.
Fields(r) == [ x \in DOMAIN r \ { "id" } |-> r[x] ]

\* The records the watcher's add handler creates for the file f of the
\* folder, up to its first attachment, when nothing is stored yet.
RecordsOfWatcher(f) ==
  LET st0 == [ store |-> { }, disk |-> << >>, tasks |-> << >>, log |-> << >>,
               n |-> 0, thrown |-> FALSE ]
      ext == extensionOf(f)
  IN IF ext = <<".","e","m","l">> THEN emailBranch(st0, 0, f, folder[f]).st.store
     ELSE IF ext \in AwaitedExtensions THEN docBranch(st0, 0, f, folder[f]).store
     ELSE textBranch(st0, 0, f, folder[f]).store

\* C27: importFolder treats a file by its extension as the watcher does, so
\* a record importFolder created is, but for its id, a record the watcher
\* creates for the same file.
C27_SameRecordAsWatcher ==
  \A r \in store :
    r.id[1] = 0 => \E s \in RecordsOfWatcher(r.filepath) : Fields(s) = Fields(r)

\* C28: when a run has called onError for its file, the run has not
\* created a record for that file.
C28_ReportedMeansDropped ==
  \A h \in Handlers :
    \A i \in 1..Len(handlers[h].log) :
      handlers[h].log[i].ev = "onError" =>
        ~\E j \in 1..Len(handlers[h].log) :
            /\ handlers[h].log[j].ev = "created"
            /\ handlers[h].log[j].filepath = handlers[h].log[i].filepath

\* C29: a run for an email with attachments to keep that has created the
\* body record and has ended did stage the attachments and did not call
\* onError for the email, whatever onNewFile did.
C29_CallbackFireAndForget ==
  \A h \in Handlers :
    ( /\ handlers[h].pc = "done"
      /\ extensionOf(handlers[h].file) = <<".","e","m","l">>
      /\ folder[handlers[h].file].ok
      /\ parseEmail(handlers[h].file,
                    folder[handlers[h].file].mail[1]).hasAttachments
      /\ \E j \in 1..Len(handlers[h].log) :
           /\ handlers[h].log[j].ev = "created"
           /\ handlers[h].log[j].filepath = handlers[h].file )
    => /\ \E j \in 1..Len(handlers[h].log) : handlers[h].log[j].ev = "stage"
       /\ ~\E j \in 1..Len(handlers[h].log) :
             /\ handlers[h].log[j].ev = "onError"
             /\ handlers[h].log[j].filepath = handlers[h].file

\* C30: a run for an email file that parsed and had no record is past the
\* empty-content check only with a body record for the file in the store,
\* holding the full content, which is never blank, whatever the body is.
C30_EmailBodyAlwaysRecorded ==
  \A h \in Handlers :
    ( /\ handlers[h].pc \in { "attExtract", "done" }
      /\ extensionOf(handlers[h].file) = <<".","e","m","l">>
      /\ ~shouldIgnore(handlers[h].file)
      /\ folder[handlers[h].file].ok
      /\ ~handlers[h].existed )
    => LET email == parseEmail(handlers[h].file, folder[handlers[h].file].mail[1])
       IN /\ ~IsBlank(email.fullContent)
          /\ \E r \in store : /\ r.filepath = handlers[h].file
                               /\ r.rawContent = email.fullContent
                               /\ r.context = EmailContext(email)

\* C30 witness: the run for a message without any text has ended and its
\* body record is stored.
C30_Witness ==
  \E h \in Handlers :
    /\ handlers[h].pc = "done"
    /\ extensionOf(handlers[h].file) = <<".","e","m","l">>
    /\ folder[handlers[h].file].ok
    /\ folder[handlers[h].file].mail[1] = Mail_empty
    /\ parseEmail(handlers[h].file, Mail_empty).bodyText = << >>
    /\ \E r \in store : r.filepath = handlers[h].file /\ r.id[1] = h

\* The header lines of the message parsed: From, To, CC when there is one,
\* Subject, Date.
HeaderLines(parsed) ==
  << "From: " \o (IF parsed.from \in {NoVal, ""} THEN "Unknown Sender"
                  ELSE parsed.from),
     "To: " \o JoinComma(parsed.to) >>
  \o (IF Len(parsed.cc) > 0 THEN << "CC: " \o JoinComma(parsed.cc) >> ELSE << >>)
  \o << "Subject: " \o (IF parsed.subject \in {NoVal, ""} THEN "(No Subject)"
                        ELSE parsed.subject),
        "Date: " \o (IF parsed.date # NoVal THEN parsed.date ELSE "Unknown") >>

\* C31: the full content is the header lines, one per line, the line
\* '---', and the body text from the next line on; the body is the trimmed
\* plain text if there is one, else the HTML part without its tags.
C31_BodyOnItsOwnLine ==
  \A h \in Handlers :
    handlers[h].pc = "parsed" =>
      LET parsed == folder[handlers[h].file].mail[1]
          email  == handlers[h].email[1]
      IN /\ email.bodyText = IF parsed.text # << >> THEN Trim(parsed.text)
                             ELSE StripHtml(parsed.html)
         /\ email.fullContent =
              JoinLines(HeaderLines(parsed) \o << "---" >>)
                \o << "\n" >> \o email.bodyText

\* A component of the path p begins with a dot (and is not the last
\* character of p), or p holds '~$'.
HiddenByPath(p) ==
  \/ \E i \in 1..(Len(p) - 1) : p[i] = "." /\ (i = 1 \/ p[i-1] = "/")
  \/ \E i \in 1..(Len(p) - 1) : p[i] = "~" /\ p[i+1] = "$"

\* C32: a path with a component that begins with a dot, or with '~$' in
\* it, is ignored whatever the file's own name is: the handler run it
\* starts ends at once without creating a record, and importFolder
\* neither records nor reports it.
C32_IgnoredByPath ==
  /\ \A h \in Handlers :
       (handlers[h].pc # "idle" /\ HiddenByPath(handlers[h].file))
         => /\ handlers[h].pc = "done"
            /\ handlers[h].n = 0
            /\ handlers[h].log = << >>
  /\ \A r \in store : r.id[1] = 0 => ~HiddenByPath(r.filepath)
  /\ \A i \in 1..Len(importResults) : ~HiddenByPath(importResults[i].filepath)

\* C32 witness: add events came for a.txt in a dot-directory and for a.txt
\* below '../w', or for a.txt in a directory with '~$' in its name; the
\* runs have ended and nothing is stored.
C32_Witness ==
  /\ \E h \in Handlers :
       /\ handlers[h].pc = "done"
       /\ handlers[h].file \in { F_hidden, F_lockDir, F_up }
       /\ ~MatchesIgnoredPattern(basename(handlers[h].file))
  /\ importResults = << >>
  /\ { r \in store : r.filepath \in { F_hidden, F_lockDir, F_up } } = { }

\* C33: an add event for a path in the staging directory is ignored: the
\* run it starts ends at once and creates nothing, so a staged path has at
\* most one record, and that one was created by the run of an email file.
C33_StagedNeverWatched ==
  /\ \A h \in Handlers :
       (handlers[h].pc # "idle" /\ dirname(handlers[h].file) = StagingDir)
         => /\ handlers[h].pc = "done"
            /\ handlers[h].n = 0
            /\ handlers[h].log = << >>
  /\ \A p \in DOMAIN disk :
       /\ Cardinality({ r \in store : r.filepath = p }) <= 1
       /\ \A r \in store :
            r.filepath = p
              => /\ r.id[1] \in Handlers
                 /\ extensionOf(handlers[r.id[1]].file) = <<".","e","m","l">>

\* C33 witness: the attachment n.txt was staged and has the record the
\* email's run created; the add event for the staged path came too, and
\* its run has ended.
C33_Witness ==
  /\ F_stagedTxt \in DOMAIN disk
  /\ \E h \in Handlers :
       handlers[h].file = F_stagedTxt /\ handlers[h].pc = "done"
  /\ \E r \in store : r.filepath = F_stagedTxt /\ handlers[r.id[1]].file = F_mEml

\* The folder of the watcher started last in the given role, << >> when
\* there is none.
WatchedFolder(role) ==
  LET ws == { w \in 1..Len(watchers) : watchers[w].role = role }
  IN IF ws = { } THEN << >>
     ELSE watchers[CHOOSE w \in ws : \A v \in ws : v <= w].folder

\* C34: what GET /api/config/watch-folder, GET /api/config/email-folder
\* and GET /api/health report is the folder of the last successful PUT,
\* the folder the watcher started last is watching.
C34_ReportsConfiguredFolder ==
  /\ server.response.handler \in { "getWatchFolder", "getHealth" }
       => server.response.body.watchFolder = WatchedFolder("transcript")
  /\ server.response.handler \in { "getEmailFolder", "getHealth" }
       => server.response.body.emailFolder = WatchedFolder("email")

\* The step sends the response of `handler`.
Answers(handler) ==
  /\ server'.response.seq # server.response.seq
  /\ server'.response.handler = handler

\* C35: a PUT of a watch or email folder that is missing from the request
\* or is not on disk is answered 400, and the step that answers 400 leaves
\* the watchers, the current watcher, the email watcher and both folder
\* settings as they were.
C35_BadFolderChangesNothing ==
  /\ [](server.response.handler \in { "putWatchFolder", "putEmailFolder" }
          => (server.response.status = 400
                <=> (server.response.req = << >>
                       \/ server.response.req \notin ExistingFolders)))
  /\ [][((Answers("putWatchFolder") \/ Answers("putEmailFolder"))
           /\ server'.response.status = 400)
          => /\ watchers' = watchers
             /\ currentWatcher' = currentWatcher
             /\ server'.emailWatcher = server.emailWatcher
             /\ server'.WATCH_FOLDER = server.WATCH_FOLDER
             /\ server'.envEmailFolder = server.envEmailFolder]_vars

\* C35 witness: with two watchers running, a PUT naming a folder that is
\* not on disk was answered 400, and both watchers are still open.
C35_Witness ==
  /\ server.response.handler = "putEmailFolder"
  /\ server.response.req = MissingFolder
  /\ server.response.status = 400
  /\ Len(watchers) = 2
  /\ \A w \in 1..Len(watchers) : ~watchers[w].closed

\* C36: POST /api/data/reset is answered 200 exactly when confirm is
\* 'RESET_ALL_DATA', and then the store is empty; any other request is
\* answered 400 and leaves the store as it was.
C36_ResetNeedsConfirmation ==
  /\ [](server.response.handler = "resetData"
          => /\ server.response.status \in { 200, 400 }
             /\ server.response.status = 200
                  <=> server.response.req = "RESET_ALL_DATA")
  /\ [][Answers("resetData")
          => IF server'.response.req = "RESET_ALL_DATA"
             THEN store' = { }
             ELSE store' = store]_vars

\* C36 witness: a record is stored and a reset request with the token in
\* lower case has been answered 400.
C36_Witness ==
  /\ server.response.handler = "resetData"
  /\ server.response.req = "reset_all_data"
  /\ server.response.status = 400
  /\ store # { }

\* C37: a GET of /api/segments/search with a query parameter q is
\* answered by the search handler.
C37_SearchReachesSearchHandler ==
  ( /\ server.response.method = "GET"
    /\ server.response.path = <<"api", "segments", "search">>
    /\ server.response.req # << >> )
  => server.response.handler = "searchSegments"

\* C38: once the modal is closed and its delayed reset has run, the voice
\* memo is as at the start: no transcript, timer 0, not recording.
C38_VoiceStateResetAfterClose ==
  (~modal.isOpen /\ ~modal.resetPending)
    => /\ modal.voiceTranscript = << >>
       /\ modal.voiceTimer = 0
       /\ ~modal.isRecording

\* The files of the listing that pass the filters of importFolder: a
\* supported extension, not ignored, no record for the path yet.
Importable ==
  SelectSeq(Listing, LAMBDA f :
    /\ toLowerCase(extname(basename(f))) \in SUPPORTED_EXTENSIONS
    /\ ~shouldIgnore(f)
    /\ ~\E r \in store : r.filepath = f)

\* C39: importFolder returns one entry, in listing order, for each file
\* that passes its filters, whether or not an earlier file failed; a success
\* entry carries the id of the one record the call created for the file, a
\* failure entry carries the error and no record was created for its file;
\* the call dispatches no analysis and calls no callback.
C39_OneEntryPerImportedFile ==
  [][ ImportFolder =>
        /\ [ i \in 1..Len(importResults') |-> importResults'[i].filepath ]
             = Importable
        /\ \A i \in 1..Len(importResults') :
             LET e == importResults'[i]
                 made == { r \in store' \ store : r.filepath = e.filepath }
             IN IF e.success
                THEN /\ Cardinality(made) = 1
                     /\ \A r \in made : r.id = e.transcriptId
                     /\ "error" \notin DOMAIN e
                ELSE /\ made = { }
                     /\ e.error \in { "parseTranscript", "createTranscript" }
        /\ \A r \in store' \ store :
             \E i \in 1..Len(importResults') :
               importResults'[i].filepath = r.filepath
        /\ \A r \in store : r \in store'
        /\ tasks' = tasks
        /\ handlers' = handlers
        /\ \A i \in 1..Len(ImportRun.st.log) :
             ImportRun.st.log[i].ev
               \notin { "processTranscript", "onNewFile", "onError" } ]_vars

\* C39 witness: an import returned a failure for one file and, after it in
\* the list, a success for a later file, while the watcher had already
\* recorded another file of the folder.
C39_Witness ==
  /\ \E i, j \in 1..Len(importResults) :
       /\ i < j
       /\ ~importResults[i].success
       /\ importResults[j].success
       /\ \E r \in store : r.id = importResults[j].transcriptId
  /\ \E r \in store :
       /\ r.id[1] # 0
       /\ \A i \in 1..Len(importResults) : importResults[i].filepath # r.filepath
====
